---- MODULE Spec2Model ----
(***************************************************************************)
(* KulaPay: loyalty and micro-credit ledger driven by a USSD menu, a chat  *)
(* channel and a unified SMS/WhatsApp callback.                            *)
(*                                                                         *)
(* The ledger (Vendor, Customer, Transaction tables) is the variable db.   *)
(* Every handler is an operator from (ledger, inputs) to (response, new    *)
(* ledger); one action per HTTP endpoint applies it atomically, which is   *)
(* the sequential request model (one request at a time).                   *)
(*                                                                         *)
(* Numbers.  Amounts are the finite values float() yields for the amount   *)
(* tokens below; all of them are multiples of 10, so amount * 0.1 and      *)
(* total_spend * 0.20 are integers and are computed exactly with \div.     *)
(* IEEE rounding and infinities are outside the model.  NaN is the value   *)
(* float() returns for the token "nan"; it is offered to the command       *)
(* parser only, never to a request that would store it.                    *)
(***************************************************************************)
EXTENDS Integers, Sequences, FiniteSets, Bags, TLC

VARIABLES
    db,     \* the ledger: [vendors, customers, transactions]
    last    \* the last completed request: channel, caller, level, response

vars == <<db, last>>

----------------------------------------------------------------------------
(* Bounds of the model                                                     *)

\* most non-Credit Transactions the ledger may hold
MaxSales == 5
\* most Credit Transactions the ledger may hold
MaxLoans == 2
\* longest phone string offered to format_phone_number, in characters
MaxPhoneLen == 4
\* most words that follow the first word of a text offered to parse_kula_command
MaxKulaWords == 4
\* most non-Credit Transactions of the one customer whose long history is followed
MaxHistory == 6
\* longest cumulative USSD text offered to the session decoder, in chunks
MaxChunks == 4
\* exceptions are raised only while the ledger holds at most this many rows
MaxFaultRows == 1

----------------------------------------------------------------------------
(* services.py: policy constants                                           *)

\* POINTS_PER_KES = 0.1, kept as its denominator: 1 point per 10 KES
POINTS_PER_KES_DEN == 10
MANDAZI_COST_POINTS == 50
MIN_TRANSACTIONS_FOR_CREDIT == 5
MIN_SPEND_FOR_CREDIT == 500
\* CREDIT_LIMIT_PERCENTAGE = 0.20, kept in percent
CREDIT_LIMIT_PERCENTAGE == 20
MAX_CREDIT_LIMIT == 300

\* models.py: PaymentType
CASH == "Cash"
MPESA == "M-Pesa"
CREDIT == "Credit"

Min(a, b) == IF a <= b THEN a ELSE b
Max(a, b) == IF a >= b THEN a ELSE b

----------------------------------------------------------------------------
(* Input alphabets                                                         *)

\* caller phones: the first may be registered as a vendor, the second never is
VendorPhone == "+254700000001"
StrangerPhone == "+254700000002"
Callers == {VendorPhone, StrangerPhone}

\* customer phone tokens: a well-formed one and one shorter than 9 characters
LongPhone == "0711111111"
ShortPhone == "07"
PhoneTokens == {LongPhone, ShortPhone}

\* tokens offered at the amount position
AmountTokens == {"500", "0", "-10", "abc"}

\* float("nan"): the value that is neither <= nor >= any number; it stands
\* outside the amounts of the model
NaN == -999999999

\* float(token): the tokens float() accepts and the value it returns;
\* every other token raises ValueError
FloatTable ==
    [t \in {"500", "0", "-10", "1", "2", "3", "9", "50", "1234",
             "0711111111", "07", "123456789", "12345678", "nan"} |->
        CASE t = "500" -> 500
          [] t = "123456789" -> 123456789
          [] t = "12345678" -> 12345678
          [] t = "nan" -> NaN
          [] t = "0" -> 0
          [] t = "-10" -> -10
          [] t = "1" -> 1
          [] t = "2" -> 2
          [] t = "3" -> 3
          [] t = "9" -> 9
          [] t = "50" -> 50
          [] t = "1234" -> 1234
          [] t = "0711111111" -> 711111111
          [] t = "07" -> 7]

IsFloat(t) == t \in DOMAIN FloatTable
Float(t) == FloatTable[t]

\* x <= y on floats: false when either side is NaN
FloatLeq(x, y) == x # NaN /\ y # NaN /\ x <= y

----------------------------------------------------------------------------
(* The ledger store (models.py)                                            *)

EmptyDb ==
    [vendors |-> {},
     customers |-> << >>,
     transactions |-> EmptyBag]

\* db.query(Vendor).filter(Vendor.phone_number == phone).first()
HasVendor(d, phone) == phone \in d.vendors

\* db.query(Customer).filter(Customer.phone_number == phone).first()
HasCustomer(d, phone) == phone \in DOMAIN d.customers

\* Customer(phone_number, kula_points, credit_limit); db.add; db.commit
AddCustomer(d, phone, points, limit) ==
    [d EXCEPT !.customers =
        (phone :> [kula_points |-> points, credit_limit |-> limit]) @@ @]

\* Transaction(vendor_id, customer_phone, amount, payment_type); db.add; db.commit
AddTransaction(d, vendor, phone, amount, pt) ==
    [d EXCEPT !.transactions =
        @ (+) SetToBag({[vendor_id |-> vendor, customer_phone |-> phone,
                         amount |-> amount, payment_type |-> pt]})]

RECURSIVE BagCount(_, _)
\* len(rows): the number of rows of B among the kinds S
BagCount(B, S) ==
    IF S = {} THEN 0
    ELSE LET t == CHOOSE x \in S : TRUE
         IN CopiesIn(t, B) + BagCount(B, S \ {t})

RECURSIVE BagTotal(_, _)
\* sum(t.amount for t in rows)
BagTotal(B, S) ==
    IF S = {} THEN 0
    ELSE LET t == CHOOSE x \in S : TRUE
         IN t.amount * CopiesIn(t, B) + BagTotal(B, S \ {t})

\* the query of check_credit_eligibility: a customer's non-Credit rows
NonCreditRows(d, phone) ==
    {t \in BagToSet(d.transactions) :
        t.customer_phone = phone /\ t.payment_type # CREDIT}

AllRows(d) == BagToSet(d.transactions)
SaleRows(d) == {t \in AllRows(d) : t.payment_type # CREDIT}
LoanRows(d) == {t \in AllRows(d) : t.payment_type = CREDIT}

----------------------------------------------------------------------------
(* services.py                                                             *)

\* an award that overwrites the running total instead of adding to it
award_points_Overwrite(d, customer_phone, amount) ==
    LET points_earned == amount \div POINTS_PER_KES_DEN
    IN [points_earned |-> points_earned,
        db |-> IF HasCustomer(d, customer_phone)
               THEN [d EXCEPT !.customers[customer_phone].kula_points =
                                  points_earned]
               ELSE AddCustomer(d, customer_phone, points_earned, 0)]

\* an award of one point per KES: the rate is left out
award_points_NoRate(d, customer_phone, amount) ==
    LET points_earned == amount
    IN [points_earned |-> points_earned,
        db |-> IF HasCustomer(d, customer_phone)
               THEN [d EXCEPT !.customers[customer_phone].kula_points =
                                  @ + points_earned]
               ELSE AddCustomer(d, customer_phone, points_earned, 0)]

\* award_points: points_earned = amount * POINTS_PER_KES, added to the customer
award_points(d, customer_phone, amount) ==
    LET points_earned == amount \div POINTS_PER_KES_DEN
    IN [points_earned |-> points_earned,
        db |-> IF HasCustomer(d, customer_phone)
               THEN [d EXCEPT !.customers[customer_phone].kula_points =
                                  @ + points_earned]
               ELSE AddCustomer(d, customer_phone, points_earned, 0)]

\* an eligibility test that asks for spend above the minimum, not at it
IsEligible_Strict(transaction_count, total_spend) ==
    /\ transaction_count >= MIN_TRANSACTIONS_FOR_CREDIT
    /\ total_spend > MIN_SPEND_FOR_CREDIT

\* check_credit_eligibility: the eligibility test
IsEligible(transaction_count, total_spend) ==
    /\ transaction_count >= MIN_TRANSACTIONS_FOR_CREDIT
    /\ total_spend >= MIN_SPEND_FOR_CREDIT

\* check_credit_eligibility: 20% of total spend, capped at 300 KES
CreditLimitFor(eligible, total_spend) ==
    IF eligible
    THEN Min((total_spend * CREDIT_LIMIT_PERCENTAGE) \div 100, MAX_CREDIT_LIMIT)
    ELSE 0

\* a check that stores the limit it computed whatever the verdict
check_credit_eligibility_WritesAlways(d, customer_phone) ==
    LET rows == NonCreditRows(d, customer_phone)
        transaction_count == BagCount(d.transactions, rows)
        total_spend == BagTotal(d.transactions, rows)
        eligible == IsEligible(transaction_count, total_spend)
        credit_limit == CreditLimitFor(eligible, total_spend)
        message ==
            IF eligible
            THEN [text |-> "Available Credit: KES", n1 |-> credit_limit, n2 |-> 0]
            ELSE [text |-> "Keep buying to unlock credit.",
                  n1 |-> Max(0, MIN_TRANSACTIONS_FOR_CREDIT - transaction_count),
                  n2 |-> Max(0, MIN_SPEND_FOR_CREDIT - total_spend)]
    IN [eligible |-> eligible,
        transaction_count |-> transaction_count,
        total_spend |-> total_spend,
        credit_limit |-> credit_limit,
        message |-> message,
        db |-> IF HasCustomer(d, customer_phone)
               THEN [d EXCEPT !.customers[customer_phone].credit_limit =
                                  credit_limit]
               ELSE d]

\* check_credit_eligibility: aggregates, verdict, limit, and the write of the limit
check_credit_eligibility(d, customer_phone) ==
    LET rows == NonCreditRows(d, customer_phone)
        transaction_count == BagCount(d.transactions, rows)
        total_spend == BagTotal(d.transactions, rows)
        eligible == IsEligible(transaction_count, total_spend)
        credit_limit == CreditLimitFor(eligible, total_spend)
        message ==
            IF eligible
            THEN [text |-> "Available Credit: KES", n1 |-> credit_limit, n2 |-> 0]
            ELSE [text |-> "Keep buying to unlock credit.",
                  n1 |-> Max(0, MIN_TRANSACTIONS_FOR_CREDIT - transaction_count),
                  n2 |-> Max(0, MIN_SPEND_FOR_CREDIT - total_spend)]
    IN [eligible |-> eligible,
        transaction_count |-> transaction_count,
        total_spend |-> total_spend,
        credit_limit |-> credit_limit,
        message |-> message,
        db |-> IF HasCustomer(d, customer_phone) /\ eligible
               THEN [d EXCEPT !.customers[customer_phone].credit_limit =
                                  credit_limit]
               ELSE d]

\* get_customer_points_info: read-only
get_customer_points_info(d, customer_phone) ==
    IF ~HasCustomer(d, customer_phone)
    THEN [points |-> 0, points_to_mandazi |-> MANDAZI_COST_POINTS,
          message |-> [text |-> "Customer not found.", n1 |-> 0, n2 |-> 0]]
    ELSE LET points == d.customers[customer_phone].kula_points
             points_to_mandazi == Max(0, MANDAZI_COST_POINTS - points)
         IN [points |-> points,
             points_to_mandazi |-> points_to_mandazi,
             message |->
                IF points >= MANDAZI_COST_POINTS
                THEN [text |-> "You have KulaPoints. You can get a free Mandazi!",
                      n1 |-> points, n2 |-> 0]
                ELSE [text |-> "You have KulaPoints. Spend more to get a free Mandazi!",
                      n1 |-> points, n2 |-> points_to_mandazi * 10]]

----------------------------------------------------------------------------
(* Responses                                                               *)

\* a USSD response: the marker ("CON" or "END"), the display text, and the
\* values the f-string formats into it (0 and "" where the text has none)
Resp(marker, text, n1, n2, pay) ==
    [marker |-> marker, text |-> text, n1 |-> n1, n2 |-> n2, pay |-> pay]

CON(text) == Resp("CON", text, 0, 0, "")
\* a terminating response that lacks its marker
END_Unmarked(text) == Resp("", text, 0, 0, "")
END(text) == Resp("END", text, 0, 0, "")

InvalidSelection == END("Invalid selection. Please try again.")
EnterCustomerPhone == CON("Enter Customer Phone Number:")
MainMenu == CON("Welcome to KulaPay 1. New Sale 2. Check Points 3. Credit")
Welcome == END("Welcome to KulaPay!")

----------------------------------------------------------------------------
(* ussd_logic.py: the session decoder                                      *)

\* The cumulative text is a sequence of chunks: "*" is the separator and any
\* other chunk is a run of characters without "*".

RECURSIVE SplitStar(_, _)
\* text.split("*"): cur is the token being read
SplitStar(text, cur) ==
    IF text = << >> THEN <<cur>>
    ELSE IF Head(text) = "*"
         THEN <<cur>> \o SplitStar(Tail(text), "")
         ELSE SplitStar(Tail(text), cur \o Head(text))

\* a decoder that drops the empty tokens
parse_ussd_text_DropsEmpty(text) ==
    IF text = << >> THEN << >>
    ELSE SelectSeq(SplitStar(text, ""), LAMBDA t : t # "")

\* parse_ussd_text
parse_ussd_text(text) ==
    IF text = << >> THEN << >> ELSE SplitStar(text, "")

\* get_menu_level
get_menu_level(text) ==
    IF text = << >> THEN 0 ELSE Len(SplitStar(text, ""))

RECURSIVE JoinStar(_)
\* the text a client submits for the steps: "*".join(steps), stored as chunks
JoinStar(steps) ==
    IF steps = << >> THEN << >>
    ELSE LET head == IF Head(steps) = "" THEN << >> ELSE <<Head(steps)>>
         IN IF Len(steps) = 1 THEN head
            ELSE head \o <<"*">> \o JoinStar(Tail(steps))

----------------------------------------------------------------------------
(* ussd_logic.py: the menu flows                                           *)

\* handle_new_sale, menu_level == 2: the customer phone step
new_sale_phone(d, menu_selections) ==
    LET customer_phone == menu_selections[2]
    IN IF customer_phone = "" \/ Len(customer_phone) < 10
       THEN [resp |-> END("Invalid phone number. Please try again."), db |-> d]
       ELSE [resp |-> CON("Enter Amount:"), db |-> d]

\* an amount step that already creates the customer while it prompts
new_sale_amount_CreatesCustomer(d, menu_selections) ==
    IF ~IsFloat(menu_selections[3])
    THEN [resp |-> END("Invalid amount. Please try again."), db |-> d]
    ELSE IF FloatLeq(Float(menu_selections[3]), 0)
    THEN [resp |-> END("Invalid amount. Please try again."), db |-> d]
    ELSE [resp |-> CON("Select Payment Type: 1. Cash 2. M-Pesa"),
          db |-> IF HasCustomer(d, menu_selections[2]) THEN d
                 ELSE AddCustomer(d, menu_selections[2], 0, 0)]

\* handle_new_sale, menu_level == 3: the amount step
new_sale_amount(d, menu_selections) ==
    IF ~IsFloat(menu_selections[3])
    THEN [resp |-> END("Invalid amount. Please try again."), db |-> d]
    ELSE IF FloatLeq(Float(menu_selections[3]), 0)
    THEN [resp |-> END("Invalid amount. Please try again."), db |-> d]
    ELSE [resp |-> CON("Select Payment Type: 1. Cash 2. M-Pesa"), db |-> d]

\* a payment step that maps both choices to Cash
payment_type_of_AlwaysCash(payment_choice) ==
    IF payment_choice \in {"1", "2"} THEN CASH ELSE ""

\* handle_new_sale, menu_level == 4: the payment type a choice selects
\* ("" where the code returns the invalid-payment-type error)
payment_type_of(payment_choice) ==
    IF payment_choice = "1" THEN CASH
    ELSE IF payment_choice = "2" THEN MPESA
    ELSE ""

\* a payment step that creates the customer before it looks the vendor up
new_sale_payment_CustomerFirst(d, menu_selections, vendor_phone) ==
    LET customer_phone == menu_selections[2]
        payment_choice == menu_selections[4]
    IN IF ~IsFloat(menu_selections[3])
       THEN [resp |-> END("Invalid transaction. Please try again."), db |-> d]
       ELSE IF payment_type_of(payment_choice) = ""
       THEN [resp |-> END("Invalid payment type. Please try again."), db |-> d]
       ELSE
        LET amount == Float(menu_selections[3])
            payment_type == payment_type_of(payment_choice)
            d1 == IF HasCustomer(d, customer_phone) THEN d
                  ELSE AddCustomer(d, customer_phone, 0, 0)
        IN IF ~HasVendor(d, vendor_phone)
           THEN [resp |-> END("Vendor not found. Please register first."),
                 db |-> d1]
           ELSE
            LET d2 == AddTransaction(d1, vendor_phone, customer_phone,
                                     amount, payment_type)
                awarded == award_points(d2, customer_phone, amount)
                eligibility == check_credit_eligibility(awarded.db, customer_phone)
            IN [resp |-> Resp("END", "Sale successful!", amount,
                              awarded.points_earned, payment_type),
                db |-> eligibility.db]

\* a sale that awards the points before it persists the Transaction
new_sale_payment_AwardsFirst(d, menu_selections, vendor_phone) ==
    LET customer_phone == menu_selections[2]
        payment_choice == menu_selections[4]
    IN IF ~IsFloat(menu_selections[3])
       THEN [resp |-> END("Invalid transaction. Please try again."), db |-> d]
       ELSE IF payment_type_of(payment_choice) = ""
       THEN [resp |-> END("Invalid payment type. Please try again."), db |-> d]
       ELSE IF ~HasVendor(d, vendor_phone)
       THEN [resp |-> END("Vendor not found. Please register first."), db |-> d]
       ELSE
        LET amount == Float(menu_selections[3])
            payment_type == payment_type_of(payment_choice)
            d1 == IF HasCustomer(d, customer_phone) THEN d
                  ELSE AddCustomer(d, customer_phone, 0, 0)
            awarded == award_points(d1, customer_phone, amount)
            d2 == AddTransaction(awarded.db, vendor_phone, customer_phone,
                                 amount, payment_type)
            eligibility == check_credit_eligibility(d2, customer_phone)
        IN [resp |-> Resp("END", "Sale successful!", amount,
                          awarded.points_earned, payment_type),
            commits |-> <<d1, awarded.db, d2, eligibility.db>>,
            db |-> eligibility.db]

\* handle_new_sale, menu_level == 4: the payment step, which processes the sale
\* (commits: the ledger after each step of the sale, in the order of the code)
new_sale_payment(d, menu_selections, vendor_phone) ==
    LET customer_phone == menu_selections[2]
        payment_choice == menu_selections[4]
    IN IF ~IsFloat(menu_selections[3])
       THEN [resp |-> END("Invalid transaction. Please try again."), db |-> d]
       ELSE IF payment_type_of(payment_choice) = ""
       THEN [resp |-> END("Invalid payment type. Please try again."), db |-> d]
       ELSE IF ~HasVendor(d, vendor_phone)
       THEN [resp |-> END("Vendor not found. Please register first."), db |-> d]
       ELSE
        LET amount == Float(menu_selections[3])
            payment_type == payment_type_of(payment_choice)
            d1 == IF HasCustomer(d, customer_phone) THEN d
                  ELSE AddCustomer(d, customer_phone, 0, 0)
            d2 == AddTransaction(d1, vendor_phone, customer_phone,
                                 amount, payment_type)
            awarded == award_points(d2, customer_phone, amount)
            eligibility == check_credit_eligibility(awarded.db, customer_phone)
        IN [resp |-> Resp("END", "Sale successful!", amount,
                          awarded.points_earned, payment_type),
            commits |-> <<d1, d2, awarded.db, eligibility.db>>,
            db |-> eligibility.db]

\* handle_new_sale
handle_new_sale(d, menu_selections, menu_level, vendor_phone) ==
    IF menu_level = 1 THEN [resp |-> EnterCustomerPhone, db |-> d]
    ELSE IF menu_level = 2 THEN new_sale_phone(d, menu_selections)
    ELSE IF menu_level = 3 THEN new_sale_amount(d, menu_selections)
    ELSE IF menu_level = 4 THEN new_sale_payment(d, menu_selections, vendor_phone)
    ELSE [resp |-> InvalidSelection, db |-> d]

\* handle_check_points
handle_check_points(d, menu_selections, menu_level, phone_number) ==
    IF menu_level = 1 THEN [resp |-> EnterCustomerPhone, db |-> d]
    ELSE IF menu_level = 2 THEN
        LET points_info == get_customer_points_info(d, menu_selections[2])
        IN IF points_info.points = 0
              /\ points_info.message.text = "Customer not found."
           THEN [resp |-> END("Customer not found."), db |-> d]
           ELSE [resp |-> Resp("END", points_info.message.text,
                               points_info.message.n1, points_info.message.n2, ""),
                 db |-> d]
    ELSE [resp |-> InvalidSelection, db |-> d]

\* an acceptance that lends the stored limit without checking eligibility again
handle_credit_NoRecheck(d, menu_selections, menu_level, vendor_phone) ==
    IF menu_level = 1 THEN [resp |-> EnterCustomerPhone, db |-> d]
    ELSE IF menu_level = 2 THEN
        LET eligibility == check_credit_eligibility(d, menu_selections[2])
        IN IF ~eligibility.eligible
           THEN [resp |-> Resp("END", eligibility.message.text,
                               eligibility.message.n1, eligibility.message.n2, ""),
                 db |-> eligibility.db]
           ELSE [resp |-> Resp("CON", "Available Credit: KES 1. Accept Loan 2. Back",
                               eligibility.message.n1, 0, ""),
                 db |-> eligibility.db]
    ELSE IF menu_level = 3 THEN
        LET customer_phone == menu_selections[2]
            choice == menu_selections[3]
        IN IF choice = "2" THEN [resp |-> MainMenu, db |-> d]
           ELSE IF choice = "1" THEN
               IF ~HasVendor(d, vendor_phone)
               THEN [resp |-> END("Vendor not found. Please register first."),
                     db |-> d]
               ELSE IF ~HasCustomer(d, customer_phone)
               THEN [resp |-> END("Customer not found."), db |-> d]
               ELSE
                LET loan_amount == d.customers[customer_phone].credit_limit
                IN [resp |-> Resp("END", "Loan approved!", loan_amount, 0, ""),
                    db |-> AddTransaction(d, vendor_phone, customer_phone,
                                          loan_amount, CREDIT)]
           ELSE [resp |-> InvalidSelection, db |-> d]
    ELSE [resp |-> InvalidSelection, db |-> d]

\* handle_credit
handle_credit(d, menu_selections, menu_level, vendor_phone) ==
    IF menu_level = 1 THEN [resp |-> EnterCustomerPhone, db |-> d]
    ELSE IF menu_level = 2 THEN
        LET eligibility == check_credit_eligibility(d, menu_selections[2])
        IN IF ~eligibility.eligible
           THEN [resp |-> Resp("END", eligibility.message.text,
                               eligibility.message.n1, eligibility.message.n2, ""),
                 db |-> eligibility.db]
           ELSE [resp |-> Resp("CON", "Available Credit: KES 1. Accept Loan 2. Back",
                               eligibility.message.n1, 0, ""),
                 db |-> eligibility.db]
    ELSE IF menu_level = 3 THEN
        LET customer_phone == menu_selections[2]
            choice == menu_selections[3]
        IN IF choice = "2" THEN [resp |-> MainMenu, db |-> d]
           ELSE IF choice = "1" THEN
            LET eligibility == check_credit_eligibility(d, customer_phone)
                d1 == eligibility.db
            IN IF ~eligibility.eligible
               THEN [resp |-> END("Credit not available. Please try again."),
                     db |-> d1]
               ELSE IF ~HasVendor(d1, vendor_phone)
               THEN [resp |-> END("Vendor not found. Please register first."),
                     db |-> d1]
               ELSE IF ~HasCustomer(d1, customer_phone)
               THEN [resp |-> END("Customer not found."), db |-> d1]
               ELSE
                LET loan_amount == d1.customers[customer_phone].credit_limit
                IN [resp |-> Resp("END", "Loan approved!", loan_amount, 0, ""),
                    db |-> AddTransaction(d1, vendor_phone, customer_phone,
                                          loan_amount, CREDIT)]
           ELSE [resp |-> InvalidSelection, db |-> d]
    ELSE [resp |-> InvalidSelection, db |-> d]

\* a root level that opens the main menu instead of the welcome text
handle_ussd_request_RootMenu(d, text, phone_number, session_id) ==
    LET menu_selections == parse_ussd_text(text)
        menu_level == get_menu_level(text)
    IN IF menu_level = 0 THEN [resp |-> MainMenu, db |-> d]
       ELSE LET first_selection == menu_selections[1]
            IN IF first_selection = "1"
               THEN handle_new_sale(d, menu_selections, menu_level, phone_number)
               ELSE IF first_selection = "2"
               THEN handle_check_points(d, menu_selections, menu_level, phone_number)
               ELSE IF first_selection = "3"
               THEN handle_credit(d, menu_selections, menu_level, phone_number)
               ELSE [resp |-> InvalidSelection, db |-> d]

\* a handler that keeps its place per session: the session it has already
\* seen is answered as if its text were stale
handle_ussd_request_PerSession(d, text, phone_number, session_id) ==
    LET menu_selections == parse_ussd_text(text)
        menu_level == get_menu_level(text)
    IN IF menu_level = 0 THEN [resp |-> Welcome, db |-> d]
       ELSE IF session_id = "ATUid_2" THEN [resp |-> InvalidSelection, db |-> d]
       ELSE LET first_selection == menu_selections[1]
            IN IF first_selection = "1"
               THEN handle_new_sale(d, menu_selections, menu_level, phone_number)
               ELSE IF first_selection = "2"
               THEN handle_check_points(d, menu_selections, menu_level, phone_number)
               ELSE IF first_selection = "3"
               THEN handle_credit(d, menu_selections, menu_level, phone_number)
               ELSE [resp |-> InvalidSelection, db |-> d]

\* handle_ussd_request: session_id is a parameter that no branch reads
handle_ussd_request(d, text, phone_number, session_id) ==
    LET menu_selections == parse_ussd_text(text)
        menu_level == get_menu_level(text)
    IN IF menu_level = 0 THEN [resp |-> Welcome, db |-> d]
       ELSE LET first_selection == menu_selections[1]
            IN IF first_selection = "1"
               THEN handle_new_sale(d, menu_selections, menu_level, phone_number)
               ELSE IF first_selection = "2"
               THEN handle_check_points(d, menu_selections, menu_level, phone_number)
               ELSE IF first_selection = "3"
               THEN handle_credit(d, menu_selections, menu_level, phone_number)
               ELSE [resp |-> InvalidSelection, db |-> d]

----------------------------------------------------------------------------
(* The environment of a request: the messaging gateway and faults          *)

\* What the environment does during one request: whether the gateway accepts
\* a send (send_sms / send_whatsapp return success true) or not (credentials
\* missing or a RequestException, both returned as success false), and where,
\* if anywhere, an exception is raised: at one of the four ledger steps of the
\* handler, in the notification after the handler, or while the body is read.
StepFaults == {"step1", "step2", "step3", "step4"}
Faults == StepFaults \cup {"send", "body"}
NoFault == "none"

\* the ledger as committed when the step named by the fault raises: the
\* commits before that step stay, the session's uncommitted work is dropped
CommittedBefore(d, commits, fault) ==
    IF commits = << >> \/ fault = "step1" THEN d
    ELSE IF fault = "step2" THEN commits[1]
    ELSE IF fault = "step3" THEN commits[2]
    ELSE commits[3]

\* no outbound message
NoSend == [channel |-> "none"]

\* an outbound message: the channel, the recipient, what the gateway
\* answered, and the ledger as committed when the send is attempted
Send(channel, to, gateway_up, d) ==
    [channel |-> channel, to |-> to, success |-> gateway_up, after |-> d]

----------------------------------------------------------------------------
(* main.py: ussd_endpoint                                                  *)

\* an endpoint without the except clause: the exception reaches the caller
ussd_endpoint_after_NoExcept(d, text, env, r) ==
    LET menu_selections == SplitStar(text, "")
        notifies == /\ r.resp.text = "Sale successful!"
                    /\ Len(menu_selections) >= 4
                    /\ IsFloat(menu_selections[3])
        error == [raised |-> TRUE]
    IN IF env.fault \in StepFaults
       THEN [resp |-> error,
             db |-> CommittedBefore(d, IF "commits" \in DOMAIN r
                                       THEN r.commits ELSE << >>, env.fault),
             sent |-> NoSend]
       ELSE IF env.fault = "send" /\ notifies
       THEN [resp |-> error, db |-> r.db, sent |-> NoSend]
       ELSE [resp |-> r.resp, db |-> r.db,
             sent |-> IF notifies
                      THEN Send("sms", menu_selections[2], env.gateway_up, r.db)
                      ELSE NoSend]

\* an endpoint that sends the SMS before the handler has committed the sale
ussd_endpoint_after_NotifiesFirst(d, text, env, r) ==
    LET menu_selections == SplitStar(text, "")
        notifies == /\ r.resp.text = "Sale successful!"
                    /\ Len(menu_selections) >= 4
                    /\ IsFloat(menu_selections[3])
        error == END("An error occurred. Please try again later.")
    IN IF env.fault \in StepFaults
       THEN [resp |-> error,
             db |-> CommittedBefore(d, IF "commits" \in DOMAIN r
                                       THEN r.commits ELSE << >>, env.fault),
             sent |-> NoSend]
       ELSE IF env.fault = "send" /\ notifies
       THEN [resp |-> error, db |-> r.db, sent |-> NoSend]
       ELSE [resp |-> r.resp, db |-> r.db,
             sent |-> IF notifies
                      THEN Send("sms", menu_selections[2], env.gateway_up, d)
                      ELSE NoSend]

\* ussd_endpoint once the handler has answered r, or has raised: the SMS to
\* the customer after a successful sale, and the except clause around all
ussd_endpoint_after(d, text, env, r) ==
    LET menu_selections == SplitStar(text, "")
        notifies == /\ r.resp.text = "Sale successful!"
                    /\ Len(menu_selections) >= 4
                    /\ IsFloat(menu_selections[3])
        error == END("An error occurred. Please try again later.")
    IN IF env.fault \in StepFaults
       THEN [resp |-> error,
             db |-> CommittedBefore(d, IF "commits" \in DOMAIN r
                                       THEN r.commits ELSE << >>, env.fault),
             sent |-> NoSend]
       ELSE IF env.fault = "send" /\ notifies
       THEN [resp |-> error, db |-> r.db, sent |-> NoSend]
       ELSE [resp |-> r.resp, db |-> r.db,
             sent |-> IF notifies
                      THEN Send("sms", menu_selections[2], env.gateway_up, r.db)
                      ELSE NoSend]

\* ussd_endpoint: the fast path for the root menu, then the handler
ussd_endpoint(d, sessionId, serviceCode, phoneNumber, text, env) ==
    IF text = << >> THEN [resp |-> Welcome, db |-> d, sent |-> NoSend]
    ELSE ussd_endpoint_after(d, text, env,
                             handle_ussd_request(d, text, phoneNumber, sessionId))

----------------------------------------------------------------------------
(* whatsapp_logic.py                                                       *)

\* A chat message is the sequence of its whitespace-separated words, which is
\* what message.strip() and message.split() leave of it.

\* str.lower() on the words of the alphabet (the other words are lower case)
Lower(w) ==
    CASE w = "SALE" -> "sale"
      [] w = "CASH" -> "cash"
      [] OTHER -> w

\* keyword in word, for the words of the alphabet: equality, and the one
\* compound word that holds a keyword inside
Contains(w, kw) == w = kw \/ (w = "wholesale" /\ kw = "sale")

\* keyword in message_lower (no keyword tested this way holds a space)
InMessage(message, kw) ==
    \E i \in 1..Len(message) : Contains(Lower(message[i]), kw)

\* message_lower.startswith(kw + " "), message_lower being stripped
StartsWithWord(message, kw) ==
    Len(message) >= 2 /\ Lower(message[1]) = kw

\* a chat reply: the text and the values formatted into it
Reply(text, n1, n2, n3, pay) ==
    [text |-> text, n1 |-> n1, n2 |-> n2, n3 |-> n3, pay |-> pay]

Say(text) == Reply(text, 0, 0, 0, "")

\* a sale command that does not test the sign of the amount
process_sale_command_NoPositiveCheck(d, message, vendor_phone) ==
    LET parts == message
    IN IF Len(parts) < 4
       THEN [resp |-> Say("Invalid format. Use: sale <phone> <amount> <cash|mpesa>"),
             db |-> d]
       ELSE IF ~IsFloat(parts[3])
       THEN [resp |-> Say("Invalid amount. Please use a number."), db |-> d]
       ELSE
        LET customer_phone == parts[2]
            amount == Float(parts[3])
            payment_str == Lower(parts[4])
        IN IF payment_str \notin {"cash", "mpesa", "m-pesa", "m pesa"}
           THEN [resp |-> Say("Payment type must be 'cash' or 'mpesa'"), db |-> d]
           ELSE IF ~HasVendor(d, vendor_phone)
           THEN [resp |-> Say("Vendor not found. Please register first."), db |-> d]
           ELSE
            LET payment_type == IF payment_str = "cash" THEN CASH ELSE MPESA
                d1 == IF HasCustomer(d, customer_phone) THEN d
                      ELSE AddCustomer(d, customer_phone, 0, 0)
                d2 == AddTransaction(d1, vendor_phone, customer_phone,
                                     amount, payment_type)
                awarded == award_points(d2, customer_phone, amount)
                eligibility == check_credit_eligibility(awarded.db, customer_phone)
            IN [resp |-> Reply("Sale successful!", amount, awarded.points_earned,
                               eligibility.db.customers[customer_phone].kula_points,
                               payment_type),
                commits |-> <<d1, d2, awarded.db, eligibility.db>>,
                db |-> eligibility.db]

\* process_sale_command
process_sale_command(d, message, vendor_phone) ==
    LET parts == message
    IN IF Len(parts) < 4
       THEN [resp |-> Say("Invalid format. Use: sale <phone> <amount> <cash|mpesa>"),
             db |-> d]
       ELSE IF ~IsFloat(parts[3])
       THEN [resp |-> Say("Invalid amount. Please use a number."), db |-> d]
       ELSE
        LET customer_phone == parts[2]
            amount == Float(parts[3])
            payment_str == Lower(parts[4])
        IN IF FloatLeq(amount, 0)
           THEN [resp |-> Say("Amount must be greater than 0"), db |-> d]
           ELSE IF payment_str \notin {"cash", "mpesa", "m-pesa", "m pesa"}
           THEN [resp |-> Say("Payment type must be 'cash' or 'mpesa'"), db |-> d]
           ELSE IF ~HasVendor(d, vendor_phone)
           THEN [resp |-> Say("Vendor not found. Please register first."), db |-> d]
           ELSE
            LET payment_type == IF payment_str = "cash" THEN CASH ELSE MPESA
                d1 == IF HasCustomer(d, customer_phone) THEN d
                      ELSE AddCustomer(d, customer_phone, 0, 0)
                d2 == AddTransaction(d1, vendor_phone, customer_phone,
                                     amount, payment_type)
                awarded == award_points(d2, customer_phone, amount)
                eligibility == check_credit_eligibility(awarded.db, customer_phone)
            IN [resp |-> Reply("Sale successful!", amount, awarded.points_earned,
                               eligibility.db.customers[customer_phone].kula_points,
                               payment_type),
                commits |-> <<d1, d2, awarded.db, eligibility.db>>,
                db |-> eligibility.db]

\* process_points_command
process_points_command(d, message, vendor_phone) ==
    LET parts == message
    IN IF Len(parts) < 2
       THEN [resp |-> Say("Invalid format. Use: points <phone>"), db |-> d]
       ELSE LET points_info == get_customer_points_info(d, parts[2])
            IN IF points_info.points = 0
                  /\ points_info.message.text = "Customer not found."
               THEN [resp |-> Say("Customer not found."), db |-> d]
               ELSE [resp |-> Reply(points_info.message.text, points_info.message.n1,
                                    points_info.message.n2, 0, ""),
                     db |-> d]

\* process_credit_command
process_credit_command(d, message, vendor_phone) ==
    LET parts == message
    IN IF Len(parts) < 2
       THEN [resp |-> Say("Invalid format. Use: credit <phone>"), db |-> d]
       ELSE
        LET customer_phone == parts[2]
            eligibility == check_credit_eligibility(d, customer_phone)
            d1 == eligibility.db
        IN IF ~eligibility.eligible
           THEN [resp |-> Reply(eligibility.message.text, eligibility.message.n1,
                                eligibility.message.n2, 0, ""),
                 db |-> d1]
           ELSE IF Len(parts) >= 3 /\ Lower(parts[3]) = "accept"
           THEN IF ~HasVendor(d1, vendor_phone)
                THEN [resp |-> Say("Vendor not found."), db |-> d1]
                ELSE IF ~HasCustomer(d1, customer_phone)
                THEN [resp |-> Say("Customer not found."), db |-> d1]
                ELSE LET loan_amount == d1.customers[customer_phone].credit_limit
                     IN [resp |-> Reply("Loan approved!", loan_amount, 0, 0, ""),
                         db |-> AddTransaction(d1, vendor_phone, customer_phone,
                                               loan_amount, CREDIT)]
           ELSE [resp |-> Reply("Available Credit: KES. To accept the loan, reply",
                                eligibility.message.n1, 0, 0, ""),
                 db |-> d1]

\* handle_whatsapp_message: the branches in the order the code tests them
handle_whatsapp_message(d, message, phone_number) ==
    IF Len(message) = 1 /\ Lower(message[1]) \in {"hi", "hello", "hey", "start", "help"}
    THEN [resp |-> Say("Welcome to KulaPay! I can help you with"), db |-> d]
    ELSE IF InMessage(message, "sale") \/ InMessage(message, "sell")
    THEN [resp |-> Say("New Sale. Format: sale <phone> <amount> <cash|mpesa>"),
          db |-> d]
    ELSE IF StartsWithWord(message, "sale")
    THEN process_sale_command(d, message, phone_number)
    ELSE IF InMessage(message, "points")
    THEN [resp |-> Say("Check Points. Format: points <phone>"), db |-> d]
    ELSE IF StartsWithWord(message, "points")
    THEN process_points_command(d, message, phone_number)
    ELSE IF InMessage(message, "credit") \/ InMessage(message, "loan")
    THEN [resp |-> Say("Credit (Eat Now, Pay Later). Format: credit <phone>"),
          db |-> d]
    ELSE IF StartsWithWord(message, "credit")
    THEN process_credit_command(d, message, phone_number)
    ELSE [resp |-> Say("I didn't understand that."), db |-> d]

\* main.py whatsapp_endpoint: the handler and the except clause around it
whatsapp_endpoint(d, phoneNumber, message, env) ==
    IF env.fault \in StepFaults
    THEN [resp |-> Say("An error occurred. Please try again later."), db |-> d]
    ELSE handle_whatsapp_message(d, message, phoneNumber)

----------------------------------------------------------------------------
(* messaging_service.py: parse_kula_command                                *)

\* A callback text is the sequence of its whitespace-separated words.

\* text.upper().startswith("KULA"), decided by the first word
StartsWithKula(w) == w \in {"KULA", "kula", "Kula", "KULA0711111111", "KULAK"}

\* text[4:].strip(): what is left of the first word after the keyword
AfterKula(w) ==
    IF w = "KULA0711111111" THEN "0711111111"
    ELSE IF w = "KULAK" THEN "K"
    ELSE ""

NoCommand == [action |-> "", customer_phone |-> "", item |-> << >>, amount |-> 0]

parse_kula_command(text) ==
    IF text = << >> THEN NoCommand
    ELSE IF ~StartsWithKula(text[1]) THEN NoCommand
    ELSE
     LET glued == AfterKula(text[1])
         parts == (IF glued = "" THEN << >> ELSE <<glued>>) \o Tail(text)
     IN IF Len(parts) < 3 THEN NoCommand
        ELSE
         LET customer_phone == parts[1]
             item == SubSeq(parts, 2, Len(parts) - 1)
             amount_str == parts[Len(parts)]
         IN IF ~IsFloat(amount_str) THEN NoCommand
            ELSE IF FloatLeq(Float(amount_str), 0) THEN NoCommand
            ELSE IF Len(customer_phone) < 9 THEN NoCommand
            ELSE [action |-> "KULA", customer_phone |-> customer_phone,
                  item |-> item, amount |-> Float(amount_str)]

----------------------------------------------------------------------------
(* messaging_handler.py: process_kula_sale                                 *)

\* a sale that persists the Transaction before it creates the customer
process_kula_sale_TransactionFirst(d, vendor_phone, customer_phone, item, amount) ==
    IF ~HasVendor(d, vendor_phone)
    THEN [success |-> FALSE, message |-> "Vendor not found. Please register first.",
          customer_phone |-> customer_phone, points_earned |-> 0,
          total_points |-> 0, credit_limit |-> 0, credit_eligible |-> FALSE,
          commits |-> << >>, db |-> d]
    ELSE
     LET d1 == AddTransaction(d, vendor_phone, customer_phone, amount, CASH)
         d2 == IF HasCustomer(d1, customer_phone) THEN d1
               ELSE AddCustomer(d1, customer_phone, 0, 0)
         awarded == award_points(d2, customer_phone, amount)
         eligibility == check_credit_eligibility(awarded.db, customer_phone)
         customer == eligibility.db.customers[customer_phone]
     IN [success |-> TRUE, message |-> "Sale Recorded!",
         customer_phone |-> customer_phone,
         points_earned |-> awarded.points_earned,
         total_points |-> customer.kula_points,
         credit_limit |-> customer.credit_limit,
         credit_eligible |-> eligibility.eligible,
         commits |-> <<d1, d2, awarded.db, eligibility.db>>,
         db |-> eligibility.db]

\* process_kula_sale (commits: the ledger after each step of the sale)
process_kula_sale(d, vendor_phone, customer_phone, item, amount) ==
    IF ~HasVendor(d, vendor_phone)
    THEN [success |-> FALSE, message |-> "Vendor not found. Please register first.",
          customer_phone |-> customer_phone, points_earned |-> 0,
          total_points |-> 0, credit_limit |-> 0, credit_eligible |-> FALSE,
          commits |-> << >>, db |-> d]
    ELSE
     LET d1 == IF HasCustomer(d, customer_phone) THEN d
               ELSE AddCustomer(d, customer_phone, 0, 0)
         d2 == AddTransaction(d1, vendor_phone, customer_phone, amount, CASH)
         awarded == award_points(d2, customer_phone, amount)
         eligibility == check_credit_eligibility(awarded.db, customer_phone)
         customer == eligibility.db.customers[customer_phone]
     IN [success |-> TRUE, message |-> "Sale Recorded!",
         customer_phone |-> customer_phone,
         points_earned |-> awarded.points_earned,
         total_points |-> customer.kula_points,
         credit_limit |-> customer.credit_limit,
         credit_eligible |-> eligibility.eligible,
         commits |-> <<d1, d2, awarded.db, eligibility.db>>,
         db |-> eligibility.db]

\* process_kula_sale when a step raises: the except clause answers, the
\* commits made before the step stay
process_kula_sale_except(d, vendor_phone, customer_phone, item, amount, fault) ==
    LET body == process_kula_sale(d, vendor_phone, customer_phone, item, amount)
    IN [success |-> FALSE, message |-> "Error processing sale",
        customer_phone |-> customer_phone, points_earned |-> 0,
        total_points |-> 0, credit_limit |-> 0, credit_eligible |-> FALSE,
        commits |-> << >>,
        db |-> CommittedBefore(d, body.commits, fault)]

----------------------------------------------------------------------------
(* main.py: messaging_callback and create_vendor                           *)

\* a channel resolution that takes every request for SMS
ChannelOf_AlwaysSms(content_type) == "sms"

\* the channel a content type resolves to: JSON is WhatsApp, form data is SMS
ChannelOf(content_type) == IF content_type = "json" THEN "whatsapp" ELSE "sms"

\* messaging_callback once process_kula_sale has returned result: the
\* message goes to the sender and the request is acknowledged
callback_reply(channel, sender, env, result) ==
    [status |-> 200, ack |-> "processed", success |-> result.success,
     message |-> result.message, channel |-> channel,
     sent |-> Send(channel, sender, env.gateway_up, result.db),
     db |-> result.db]

\* messaging_callback once the text is parsed into cmd: the refusal of a
\* command that did not parse, or the sale and the reply to the sender
callback_sale(d, channel, sender, env, refused, cmd) ==
    IF cmd.action = "" \/ cmd.customer_phone = "" \/ cmd.amount = 0
    THEN refused
    ELSE callback_reply(channel, sender, env,
                        IF env.fault \in StepFaults
                        THEN process_kula_sale_except(d, sender, cmd.customer_phone,
                                                      cmd.item, cmd.amount, env.fault)
                        ELSE process_kula_sale(d, sender, cmd.customer_phone,
                                               cmd.item, cmd.amount))

\* a callback that acknowledges a text it could not parse instead of refusing it
messaging_callback_AcksInvalid(d, content_type, sender, text, env) ==
    LET channel == ChannelOf(content_type)
        refused == [status |-> 200, ack |-> "processed", success |-> FALSE,
                    message |-> "Invalid Format: Use 'KULA [CustomerPhone] [Item] [Amount]'",
                    channel |-> channel,
                    sent |-> Send(channel, sender, env.gateway_up, d), db |-> d]
    IN IF env.fault = "body"
       THEN [status |-> 500, ack |-> "error", success |-> FALSE,
             message |-> "Error processing message", channel |-> channel,
             sent |-> NoSend, db |-> d]
       ELSE IF sender = "" \/ text = << >>
       THEN [status |-> 400, ack |-> "error", success |-> FALSE,
             message |-> "Invalid Format: Missing 'from' or 'text' field",
             channel |-> channel,
             sent |-> IF sender # "" THEN Send(channel, sender, env.gateway_up, d) ELSE NoSend,
             db |-> d]
       ELSE callback_sale(d, channel, sender, env, refused, parse_kula_command(text))

\* a callback that refuses a malformed request without a word to the sender
messaging_callback_NoErrorReply(d, content_type, sender, text, env) ==
    LET channel == ChannelOf(content_type)
        refused == [status |-> 400, ack |-> "error", success |-> FALSE,
                    message |-> "Invalid Format: Use 'KULA [CustomerPhone] [Item] [Amount]'",
                    channel |-> channel,
                    sent |-> NoSend, db |-> d]
    IN IF env.fault = "body"
       THEN [status |-> 500, ack |-> "error", success |-> FALSE,
             message |-> "Error processing message", channel |-> channel,
             sent |-> NoSend, db |-> d]
       ELSE IF sender = "" \/ text = << >>
       THEN [status |-> 400, ack |-> "error", success |-> FALSE,
             message |-> "Invalid Format: Missing 'from' or 'text' field",
             channel |-> channel,
             sent |-> IF sender # "" THEN NoSend ELSE NoSend,
             db |-> d]
       ELSE callback_sale(d, channel, sender, env, refused, parse_kula_command(text))

\* messaging_callback: the HTTP status, the body ("processed" acknowledgement
\* or "error"), the message sent back to the sender and the ledger
messaging_callback(d, content_type, sender, text, env) ==
    LET channel == ChannelOf(content_type)
        refused == [status |-> 400, ack |-> "error", success |-> FALSE,
                    message |-> "Invalid Format: Use 'KULA [CustomerPhone] [Item] [Amount]'",
                    channel |-> channel,
                    sent |-> Send(channel, sender, env.gateway_up, d), db |-> d]
    IN IF env.fault = "body"
       THEN [status |-> 500, ack |-> "error", success |-> FALSE,
             message |-> "Error processing message", channel |-> channel,
             sent |-> NoSend, db |-> d]
       ELSE IF sender = "" \/ text = << >>
       THEN [status |-> 400, ack |-> "error", success |-> FALSE,
             message |-> "Invalid Format: Missing 'from' or 'text' field",
             channel |-> channel,
             sent |-> IF sender # "" THEN Send(channel, sender, env.gateway_up, d) ELSE NoSend,
             db |-> d]
       ELSE callback_sale(d, channel, sender, env, refused, parse_kula_command(text))

\* create_vendor: refuses a phone that already has a Vendor
create_vendor(d, phone_number) ==
    IF HasVendor(d, phone_number) THEN d
    ELSE [d EXCEPT !.vendors = @ \cup {phone_number}]

----------------------------------------------------------------------------
(* at_utils.py and messaging_service.py: format_phone_number               *)

\* A phone string is the sequence of its characters.

\* the whitespace characters of the alphabet: space and tab
Whitespace == {" ", "\t"}

RECURSIVE LStrip(_)
LStrip(str) ==
    IF str # << >> /\ Head(str) \in Whitespace THEN LStrip(Tail(str)) ELSE str

RECURSIVE RStrip(_)
RStrip(str) ==
    IF str # << >> /\ str[Len(str)] \in Whitespace
    THEN RStrip(SubSeq(str, 1, Len(str) - 1))
    ELSE str

\* str.strip(): leading and trailing whitespace removed
Strip(str) == RStrip(LStrip(str))

\* str.replace(ch, ""): every occurrence of the character removed
Remove(str, ch) == SelectSeq(str, LAMBDA c : c # ch)

\* str.startswith(prefix)
StartsWith(str, prefix) ==
    Len(str) >= Len(prefix) /\ SubSeq(str, 1, Len(prefix)) = prefix

\* the country code "+254" and its digits "254"
CountryCode == <<"+", "2", "5", "4">>
CountryDigits == <<"2", "5", "4">>

\* at_utils.format_phone_number
format_phone_number(phone) ==
    LET cleaned == Remove(Remove(Strip(phone), " "), "-")
    IN IF StartsWith(cleaned, <<"+">>) THEN cleaned
       ELSE IF StartsWith(cleaned, <<"0">>) THEN CountryCode \o Tail(cleaned)
       ELSE IF StartsWith(cleaned, CountryDigits) THEN <<"+">> \o cleaned
       ELSE CountryCode \o cleaned

\* MessagingService.format_phone_number
MessagingService_format_phone_number(phone) ==
    LET cleaned == Remove(Remove(Strip(phone), " "), "-")
    IN IF StartsWith(cleaned, <<"+">>) THEN cleaned
       ELSE IF StartsWith(cleaned, <<"0">>) THEN CountryCode \o Tail(cleaned)
       ELSE IF StartsWith(cleaned, CountryDigits) THEN <<"+">> \o cleaned
       ELSE CountryCode \o cleaned

----------------------------------------------------------------------------
(* Requests offered to the endpoints                                       *)

\* the step sequences of USSD sessions: every branch of every flow, with the
\* full range of amounts for the well-formed phone paid in cash
SaleSteps ==
    {<<"1">>}
    \cup {<<"1", p>> : p \in PhoneTokens}
    \cup {<<"1", LongPhone, a>> : a \in AmountTokens}
    \cup {<<"1", LongPhone, a, "1">> : a \in AmountTokens}
    \cup {<<"1", LongPhone, "500", c>> : c \in {"2", "9"}}
    \cup {<<"1", ShortPhone, "500", "1">>, <<"1", LongPhone, "500", "1", "1">>}

PointsSteps ==
    {<<"2">>}
    \cup {<<"2", p>> : p \in PhoneTokens}
    \cup {<<"2", LongPhone, "1">>}

CreditSteps ==
    {<<"3">>}
    \cup {<<"3", p>> : p \in PhoneTokens}
    \cup {<<"3", LongPhone, c>> : c \in {"1", "2", "9"}}
    \cup {<<"3", ShortPhone, "1">>, <<"3", LongPhone, "1", "1">>}

\* the steps of a client that answers name, business name and PIN prompts
NameSteps ==
    {<<"Jane">>, <<"1234">>, <<"Jane", "Kitchen">>,
     <<"Jane", "Kitchen", "1234">>, <<"Jane", "Kitchen", "12a4">>}

UssdSteps ==
    {<< >>, <<"9">>} \cup SaleSteps \cup PointsSteps \cup CreditSteps \cup NameSteps

\* chat messages
ChatMessages ==
    {<<"hi">>, <<"sale">>, <<"points">>, <<"credit">>, <<"bogus">>, <<"wholesale">>}
    \cup {<<"sale", LongPhone, a, k>> : a \in {"500", "abc"}, k \in {"cash", "mpesa"}}
    \cup {<<"SALE", LongPhone, "500", "CASH">>}
    \cup {<<"points", LongPhone>>, <<"credit", LongPhone>>,
          <<"credit", LongPhone, "accept">>}

\* callback texts
CallbackTexts ==
    {<< >>, <<"INVALID", "COMMAND">>, <<"KULA", LongPhone, "500">>}
    \cup {<<"KULA", LongPhone, "Chapati", a>> : a \in AmountTokens}
    \cup {<<"KULA", ShortPhone, "Chapati", "500">>,
          <<"kula", LongPhone, "Chapati", "500">>,
          <<"KULA0711111111", "Big", "Chapati", "500">>}

----------------------------------------------------------------------------
(* The state machine                                                       *)

SaleCount(d) == BagCount(d.transactions, SaleRows(d))
LoanCount(d) == BagCount(d.transactions, LoanRows(d))

\* the bound on the ledger's size
WithinBounds(d) == SaleCount(d) <= MaxSales /\ LoanCount(d) <= MaxLoans

\* no request is being answered
Idle == [chan |-> "idle"]

\* the session identifiers and service codes the gateway sends
SessionIds == {"ATUid_1", "ATUid_2"}
ServiceCodes == {"*384*1#", "*384*2#"}

\* the sessions offered: two sessions that differ in both
Sessions ==
    {[sessionId |-> "ATUid_1", serviceCode |-> "*384*1#"],
     [sessionId |-> "ATUid_2", serviceCode |-> "*384*2#"]}

\* the environments of fault-free requests
Envs == [gateway_up : BOOLEAN, fault : {NoFault}]

\* the exchange just completed: the request, the ledger it found, the response
Exchange(chan, caller, text, before, resp) ==
    [chan |-> chan, caller |-> caller, text |-> text, before |-> before,
     resp |-> resp]

Init ==
    /\ db = EmptyDb
    /\ last = Idle

\* POST /vendors
CreateVendor ==
    /\ last = Idle
    /\ db' = create_vendor(db, VendorPhone)
    /\ last' = Exchange("vendors", VendorPhone, << >>, db,
                        Say(IF HasVendor(db, VendorPhone)
                            THEN "Vendor already exists" ELSE "created"))

\* POST /ussd
UssdRequest ==
    /\ last = Idle
    /\ \E caller \in Callers, steps \in UssdSteps :
        LET text == JoinStar(steps)
        IN \E env \in Envs, session \in Sessions :
            LET r == ussd_endpoint(db, session.sessionId, session.serviceCode,
                                   caller, text, env)
            IN /\ WithinBounds(r.db)
               /\ db' = r.db
               /\ last' = Exchange("ussd", caller, text, db, r.resp)
                              @@ [sent |-> r.sent, session |-> session]

\* POST /whatsapp
WhatsappRequest ==
    /\ last = Idle
    /\ \E caller \in Callers, message \in ChatMessages :
        LET r == whatsapp_endpoint(db, caller, message, [gateway_up |-> TRUE,
                                                          fault |-> NoFault])
        IN /\ WithinBounds(r.db)
           /\ db' = r.db
           /\ last' = Exchange("whatsapp", caller, message, db, r.resp)

\* POST /messaging/callback
MessagingCallback ==
    /\ last = Idle
    /\ \E sender \in Callers \cup {""}, content_type \in {"json", "form"},
          text \in CallbackTexts, env \in Envs :
        LET r == messaging_callback(db, content_type, sender, text, env)
        IN /\ WithinBounds(r.db)
           /\ db' = r.db
           /\ last' = Exchange("callback", sender, text, db,
                               [content_type |-> content_type,
                                status |-> r.status, ack |-> r.ack,
                                success |-> r.success,
                                message |-> r.message, channel |-> r.channel,
                                sent |-> r.sent])

\* the response is returned to the caller; the server takes the next request
Deliver ==
    /\ last # Idle
    /\ last' = Idle
    /\ UNCHANGED db

Next ==
    \/ CreateVendor
    \/ UssdRequest
    \/ WhatsappRequest
    \/ MessagingCallback
    \/ Deliver

Spec == Init /\ [][Next]_vars

----------------------------------------------------------------------------
(* The utility functions, called on their own                              *)

\* the characters of phone strings
PhoneChars == {"+", "0", "2", "5", "4", "7", " ", "-", "\t"}

\* the phone strings offered: every string up to MaxPhoneLen characters and
\* the four numbers of the documentation
PhoneStrings ==
    UNION {[1..n -> PhoneChars] : n \in 0..MaxPhoneLen}
    \cup {<<"0", "7", "1", "2", "3", "4", "5", "6", "7", "8">>,
          <<"+", "2", "5", "4", "7", "1", "2", "3", "4", "5", "6", "7", "8">>,
          <<"2", "5", "4", "7", "1", "2", "3", "4", "5", "6", "7", "8">>,
          <<"7", "1", "2", "3", "4", "5", "6", "7", "8">>}

\* a call of format_phone_number: both implementations on the same string
FormatPhone ==
    /\ last = Idle
    /\ \E phone \in PhoneStrings :
        last' = Exchange("format_phone_number", "", phone, db,
                         [at_utils |-> format_phone_number(phone),
                          service |-> MessagingService_format_phone_number(phone)])
    /\ UNCHANGED db

\* first words of callback texts: the keyword in three spellings, the keyword
\* with more characters glued to it, a prefix of the keyword, another word
KulaFirstWords == {"KULA", "kula", "Kula", "KULA0711111111", "KULAK", "KUL", "SALE"}

\* the words that follow: phones of 10, 9 and 8 characters, an item word,
\* a positive and a negative amount and the token float() reads as NaN
KulaWords == {"0711111111", "123456789", "12345678", "Chapati", "500", "-10", "nan"}

\* the texts offered to parse_kula_command
KulaTexts ==
    {<< >>}
    \cup {<<w>> \o rest :
             w \in KulaFirstWords,
             rest \in UNION {[1..n -> KulaWords] : n \in 0..MaxKulaWords}}

\* a call of parse_kula_command
ParseKula ==
    /\ last = Idle
    /\ \E text \in KulaTexts :
        last' = Exchange("parse_kula_command", "", text, db,
                         parse_kula_command(text))
    /\ UNCHANGED db

\* the chunks of the texts offered to the decoder: the separator, a menu
\* choice and the start of a phone number
UssdChunks == {"*", "1", "07"}

\* the cumulative texts offered to the decoder: every text of up to
\* MaxChunks chunks, the empty text included
UssdTexts == UNION {[1..n -> UssdChunks] : n \in 0..MaxChunks}

\* a call of parse_ussd_text and of get_menu_level on the same text
DecodeUssd ==
    /\ last = Idle
    /\ \E text \in UssdTexts :
        last' = Exchange("parse_ussd_text", "", text, db,
                         [steps |-> parse_ussd_text(text),
                          level |-> get_menu_level(text)])
    /\ UNCHANGED db

PureNext ==
    \/ FormatPhone
    \/ ParseKula
    \/ DecodeUssd
    \/ Deliver

PureSpec == Init /\ [][PureNext]_vars

----------------------------------------------------------------------------
(* The chat commands, called on their own                                  *)

\* the messages handed to the three command functions: too few, the right
\* number and too many arguments, each amount and each payment-kind token
CommandMessages ==
    {<<"sale">>, <<"sale", LongPhone>>, <<"sale", LongPhone, "500">>}
    \cup {<<"sale", LongPhone, a, k>> :
             a \in AmountTokens, k \in {"cash", "mpesa", "cheque"}}
    \cup {<<"sale", LongPhone, "500", "cash", "extra">>}
    \cup {<<"points">>, <<"points", LongPhone>>, <<"points", LongPhone, "extra">>}
    \cup {<<"credit">>, <<"credit", LongPhone>>, <<"credit", LongPhone, "accept">>,
          <<"credit", LongPhone, "accept", "extra">>}

\* the command function a message is for
run_command(d, message, vendor_phone) ==
    IF message[1] = "sale" THEN process_sale_command(d, message, vendor_phone)
    ELSE IF message[1] = "points" THEN process_points_command(d, message, vendor_phone)
    ELSE process_credit_command(d, message, vendor_phone)

\* a direct call of process_sale_command, process_points_command or
\* process_credit_command
ChatCommand ==
    /\ last = Idle
    /\ \E caller \in Callers, message \in CommandMessages :
        LET r == run_command(db, message, caller)
        IN /\ WithinBounds(r.db)
           /\ db' = r.db
           /\ last' = Exchange("command", caller, message, db, r.resp)

ChatNext ==
    \/ CreateVendor
    \/ ChatCommand
    \/ Deliver

ChatSpec == Init /\ [][ChatNext]_vars

----------------------------------------------------------------------------
(* Properties                                                              *)

\* the last exchange was a USSD request
LastIsUssd == last.chan = "ussd"

\* the steps of the last USSD request
LastSteps == parse_ussd_text(last.text)

\* tokens made of digits only
DigitTokens == {"500", "0", "1", "2", "3", "9", "50", "1234", "0711111111", "07"}

\* exactly 4 numeric characters
FourDigits(t) == Len(t) = 4 /\ t \in DigitTokens

RECURSIVE PointsDue(_, _)
\* the sum over the rows S of bag B of amount x 0.1
PointsDue(B, S) ==
    IF S = {} THEN 0
    ELSE LET t == CHOOSE x \in S : TRUE
         IN (t.amount \div 10) * CopiesIn(t, B) + PointsDue(B, S \ {t})

\* a customer's purchases: the rows paid in cash or by M-Pesa
Purchases(d, phone) ==
    {t \in BagToSet(d.transactions) :
        t.customer_phone = phone /\ t.payment_type \in {CASH, MPESA}}

C4_AmountsPositive ==
    \A t \in BagToSet(db.transactions) : t.amount > 0

C6_FirstSale ==
    \A p \in PhoneTokens, a \in {500, 50, 10} :
        (/\ HasVendor(db, VendorPhone)
         /\ ~HasCustomer(db, p)
         /\ Purchases(db, p) = {}) =>
            LET r == process_kula_sale(db, VendorPhone, p, <<"Chapati">>, a)
            IN /\ r.success
               /\ r.points_earned * 10 = a
               /\ r.total_points * 10 = a
               /\ r.db.customers[p].kula_points * 10 = a
               /\ a = 500 => r.points_earned = 50
               /\ ~r.credit_eligible
               /\ r.credit_limit = 0
               /\ r.db.customers[p].credit_limit = 0

\* C6's case: the callback has recorded a first sale of 500 for a new customer
C6_Witness ==
    /\ last.chan = "callback"
    /\ last.resp.success
    /\ HasVendor(last.before, last.caller)
    /\ ~HasCustomer(last.before, LongPhone)
    /\ HasCustomer(db, LongPhone)
    /\ db.customers[LongPhone].kula_points = 50

(* C7: from equal ledgers with a registered vendor, the chat message       *)
(* 'sale <phone> <amount> cash' and the USSD text '1*<phone>*<amount>*1'   *)
(* leave equal ledgers.                                                    *)
C7_ChatEqualsUssd ==
    HasVendor(db, VendorPhone) =>
        \A a \in {"500"} :
            handle_whatsapp_message(
                db, <<"sale", LongPhone, a, "cash">>, VendorPhone).db
            = handle_ussd_request(
                db, JoinStar(<<"1", LongPhone, a, "1">>), VendorPhone, "ATUid_1").db

(* C8: for a caller with no Vendor, a USSD request creates the Vendor and  *)
(* ends the session exactly when it has 3 or more steps and the third is   *)
(* 4 numeric characters; with another third step it ends and creates none. *)
C8_Onboarding ==
    (LastIsUssd /\ ~HasVendor(last.before, last.caller)) =>
        LET complete == Len(LastSteps) >= 3 /\ FourDigits(LastSteps[3])
        IN /\ HasVendor(db, last.caller) <=> complete
           /\ complete => last.resp.marker = "END"
           /\ (Len(LastSteps) >= 3 /\ ~complete) =>
                  (last.resp.marker = "END" /\ db.vendors = last.before.vendors)

(* C9: for a caller with a Vendor, a USSD request of exactly one step is   *)
(* a PIN check: it either ends the session with the ledger unchanged       *)
(* (wrong PIN) or continues with the main menu.                            *)
C9_PinCheck ==
    (LastIsUssd /\ HasVendor(last.before, last.caller) /\ Len(LastSteps) = 1) =>
        \/ last.resp.marker = "END" /\ db = last.before
        \/ last.resp = MainMenu

(* C10: for a caller with no Vendor and fewer than 3 steps, the response   *)
(* is a continuation, and it is the one every other text of the same       *)
(* level gets.                                                             *)
C10_OnboardingPrompts ==
    (LastIsUssd /\ ~HasVendor(last.before, last.caller) /\ Len(LastSteps) < 3) =>
        /\ last.resp.marker = "CON"
        /\ \A steps \in UssdSteps :
               Len(steps) = Len(LastSteps) =>
                   handle_ussd_request(last.before, JoinStar(steps),
                                       last.caller, last.session.sessionId).resp
                   = last.resp

(* C11: at level 0 (empty text) the USSD machine answers with a            *)
(* continuation, so the session stays open for the first step.             *)
C11_RootContinues ==
    (LastIsUssd /\ LastSteps = << >>) => last.resp.marker = "CON"

\* the last request went to the unified callback
LastIsCallback == last.chan = "callback"

(* C12: a USSD request with empty text is answered 'END Welcome to         *)
(* KulaPay!' for every caller and every ledger, by the endpoint's fast     *)
(* path and by handle_ussd_request alike, and the ledger is left as it is. *)
C12_RootWelcome ==
    /\ \A caller \in Callers :
           /\ \A env \in Envs, session \in Sessions :
                  LET r == ussd_endpoint(db, session.sessionId, session.serviceCode,
                                         caller, << >>, env)
                  IN r.resp = Welcome /\ r.db = db
           /\ \A session_id \in SessionIds :
                  handle_ussd_request(db, << >>, caller, session_id)
                  = [resp |-> Welcome, db |-> db]
    /\ (LastIsUssd /\ last.text = << >>) =>
           (last.resp = Welcome /\ db = last.before)

\* C12's case: the root request answered on a ledger that holds sales
C12_Witness ==
    /\ LastIsUssd
    /\ last.text = << >>
    /\ last.resp.text = "Welcome to KulaPay!"
    /\ HasVendor(db, last.caller)
    /\ SaleCount(db) >= 2

(* C13: a callback with a sender whose text is not a parseable KULA        *)
(* command is answered with status 400 and leaves the ledger unchanged.    *)
C13_InvalidCommandRefused ==
    (LastIsCallback /\ last.caller # ""
     /\ parse_kula_command(last.text) = NoCommand) =>
        /\ last.resp.status = 400
        /\ last.resp.ack = "error"
        /\ db = last.before

\* C13's case: a registered vendor has sent 'INVALID COMMAND'
C13_Witness ==
    /\ LastIsCallback
    /\ HasVendor(last.before, last.caller)
    /\ last.text = <<"INVALID", "COMMAND">>
    /\ last.resp.status = 400

(* C14: a callback with a sender and a well-formed KULA text is answered   *)
(* 200 with a 'processed' acknowledgement carrying the sale's success flag *)
(* and message and the channel (sms for form data, whatsapp for JSON); for *)
(* a registered vendor exactly one Cash Transaction of the amount is added.*)
C14_WellFormedProcessed ==
    (LastIsCallback /\ last.caller # ""
     /\ parse_kula_command(last.text) # NoCommand) =>
        LET cmd == parse_kula_command(last.text)
            sale == process_kula_sale(last.before, last.caller,
                                      cmd.customer_phone, cmd.item, cmd.amount)
        IN /\ last.resp.status = 200
           /\ last.resp.ack = "processed"
           /\ last.resp.success = sale.success
           /\ last.resp.message = sale.message
           /\ last.resp.content_type = "form" => last.resp.channel = "sms"
           /\ last.resp.content_type = "json" => last.resp.channel = "whatsapp"
           /\ HasVendor(last.before, last.caller) =>
                  /\ last.resp.success
                  /\ db.transactions =
                         last.before.transactions (+)
                         SetToBag({[vendor_id |-> last.caller,
                                    customer_phone |-> cmd.customer_phone,
                                    amount |-> cmd.amount,
                                    payment_type |-> "Cash"]})

\* C14's case: a sale by a registered vendor sent as JSON, acknowledged
C14_Witness ==
    /\ LastIsCallback
    /\ last.resp.content_type = "json"
    /\ last.resp.ack = "processed"
    /\ last.resp.success
    /\ last.text = <<"KULA0711111111", "Big", "Chapati", "500">>
    /\ BagCardinality(db.transactions) =
           BagCardinality(last.before.transactions) + 1

\* the last call was format_phone_number
LastIsFormatPhone == last.chan = "format_phone_number"

\* a phone string with all its whitespace and hyphens taken out
Stripped(phone) == SelectSeq(phone, LAMBDA c : c \notin Whitespace \cup {"-"})

\* the canonical form the normalization is described by
Canonical(phone) ==
    LET digits == Stripped(phone)
    IN IF digits # << >> /\ Head(digits) = "+" THEN digits
       ELSE IF digits # << >> /\ Head(digits) = "0" THEN CountryCode \o Tail(digits)
       ELSE IF StartsWith(digits, CountryDigits) THEN <<"+">> \o digits
       ELSE CountryCode \o digits

(* C15: the two format_phone_number implementations agree; the result is   *)
(* the input without whitespace and hyphens, with a leading '+' kept, a    *)
(* leading '0' replaced by '+254', a leading '254' prefixed with '+' and   *)
(* anything else prefixed with '+254'; normalizing twice equals once.      *)
C15_PhoneNormalization ==
    LastIsFormatPhone =>
        /\ last.resp.at_utils = last.resp.service
        /\ last.resp.at_utils = Canonical(last.text)
        /\ format_phone_number(last.resp.at_utils) = last.resp.at_utils

\* the last request went to one of the three message channels
LastIsRequest == last.chan \in {"ussd", "whatsapp", "callback"}

C17_CustomerCreation ==
    /\ (last # Idle /\ DOMAIN db.customers # DOMAIN last.before.customers) =>
           /\ LastIsRequest
           /\ HasVendor(last.before, last.caller)
           /\ \E p \in DOMAIN db.customers :
                  /\ ~HasCustomer(last.before, p)
                  /\ DOMAIN db.customers = DOMAIN last.before.customers \cup {p}
                  /\ BagCount(db.transactions, Purchases(db, p)) = 1
                  /\ \A t \in Purchases(db, p) : t.vendor_id = last.caller
    /\ \A p \in PhoneTokens :
           ~HasCustomer(db, p) =>
               /\ check_credit_eligibility(db, p).db = db
               /\ \A caller \in Callers :
                      /\ handle_check_points(db, <<"2", p>>, 2, caller).db = db
                      /\ handle_credit(db, <<"3", p>>, 2, caller).db = db
                      /\ process_points_command(db, <<"points", p>>, caller).db = db
                      /\ process_credit_command(db, <<"credit", p>>, caller).db = db
               /\ HasVendor(db, VendorPhone) =>
                      LET created == AddCustomer(db, p, 0, 0)
                      IN /\ new_sale_payment(db, <<"1", p, "500", "1">>,
                                             VendorPhone).commits[1] = created
                         /\ process_sale_command(db, <<"sale", p, "500", "cash">>,
                                                 VendorPhone).commits[1] = created
                         /\ process_kula_sale(db, VendorPhone, p, <<"Chapati">>,
                                              500).commits[1] = created

\* C17's case: a USSD sale for an unknown phone has created the customer,
\* first with zero points, then awarded
C17_Witness ==
    /\ LastIsUssd
    /\ Len(LastSteps) = 4
    /\ ~HasCustomer(last.before, LastSteps[2])
    /\ HasCustomer(db, LastSteps[2])
    /\ new_sale_payment(last.before, LastSteps, last.caller)
           .commits[1].customers[LastSteps[2]].kula_points = 0
    /\ db.customers[LastSteps[2]].kula_points = 50

\* the last request went to the chat endpoint
LastIsChat == last.chan = "whatsapp"

(* C18: a chat message that begins with a command keyword followed by      *)
(* arguments is dispatched to process_sale_command, process_points_command *)
(* or process_credit_command: the reply and the ledger are the command's.  *)
C18_CommandsDispatched ==
    (LastIsChat /\ Len(last.text) >= 2) =>
        LET word == Lower(last.text[1])
            sale == process_sale_command(last.before, last.text, last.caller)
            points == process_points_command(last.before, last.text, last.caller)
            credit == process_credit_command(last.before, last.text, last.caller)
        IN /\ word = "sale" => (last.resp = sale.resp /\ db = sale.db)
           /\ word = "points" => (last.resp = points.resp /\ db = points.db)
           /\ word = "credit" => (last.resp = credit.resp /\ db = credit.db)

\* the last call was a direct call of a chat command
LastIsCommand == last.chan = "command"

\* the replies that report a malformed command
FormatErrors ==
    {"Invalid format. Use: sale <phone> <amount> <cash|mpesa>",
     "Invalid amount. Please use a number.",
     "Amount must be greater than 0",
     "Payment type must be 'cash' or 'mpesa'",
     "Invalid format. Use: points <phone>",
     "Invalid format. Use: credit <phone>"}

\* every reply that reports an error
ErrorReplies ==
    FormatErrors \cup {"Vendor not found. Please register first.",
                       "Vendor not found.", "Customer not found."}

\* the arguments a command requires
RequiredArgs(message) == IF message[1] = "sale" THEN 3 ELSE 1

\* a sale command whose amount is not a number or not positive, or whose
\* payment kind is unknown
BadSaleFields(message) ==
    /\ message[1] = "sale"
    /\ Len(message) >= 4
    /\ \/ ~IsFloat(message[3])
       \/ Float(message[3]) <= 0
       \/ Lower(message[4]) \notin {"cash", "mpesa", "m-pesa"}

(* C19, as amended: the three chat commands answer with an error string    *)
(* and leave the ledger unchanged whenever the message has fewer arguments *)
(* than the command requires, an amount that is not a number or not        *)
(* positive, or an unknown payment kind.                                   *)
C19_BadCommandsRefused ==
    (LastIsCommand
     /\ (Len(last.text) - 1 < RequiredArgs(last.text) \/ BadSaleFields(last.text))) =>
        /\ last.resp.text \in FormatErrors
        /\ db = last.before

\* C19's case: a registered vendor's sale command with a negative amount,
\* refused on a ledger that holds sales
C19_Witness ==
    /\ LastIsCommand
    /\ HasVendor(last.before, last.caller)
    /\ last.text = <<"sale", LongPhone, "-10", "cash">>
    /\ last.resp.text = "Amount must be greater than 0"
    /\ SaleCount(db) >= 1

(* C19 as stated: the commands answer with an error string and leave the   *)
(* ledger unchanged whenever the number of arguments is wrong (too few or  *)
(* too many) or a sale field is bad.                                       *)
C19_Original ==
    (LastIsCommand
     /\ (\/ Len(last.text) - 1 # RequiredArgs(last.text)
           /\ ~(last.text[1] = "credit" /\ Len(last.text) = 3)
         \/ BadSaleFields(last.text))) =>
        /\ last.resp.text \in ErrorReplies
        /\ db = last.before

\* the last call was parse_kula_command
LastIsParse == last.chan = "parse_kula_command"

\* the tokens that remain after the keyword
AfterKeyword(text) ==
    (IF AfterKula(text[1]) = "" THEN << >> ELSE <<AfterKula(text[1])>>)
    \o Tail(text)

\* the token parses as a number > 0
PositiveNumber(t) == IsFloat(t) /\ Float(t) # NaN /\ Float(t) > 0

(* C20: parse_kula_command accepts a text exactly when it starts with the  *)
(* keyword KULA in any case, at least 3 tokens remain after the keyword,   *)
(* the last token parses as a number > 0 and the first remaining token has *)
(* at least 9 characters; it then returns the first remaining token as the *)
(* phone, the last as the amount and the tokens between them as the item;  *)
(* otherwise it returns the all-None result.                               *)
C20_KulaGrammar ==
    LastIsParse =>
        LET text == last.text
            keyword == text # << >> /\ StartsWithKula(text[1])
            rest == IF keyword THEN AfterKeyword(text) ELSE << >>
            accepted == /\ keyword
                        /\ Len(rest) >= 3
                        /\ PositiveNumber(rest[Len(rest)])
                        /\ Len(rest[1]) >= 9
        IN IF accepted
           THEN last.resp = [action |-> "KULA",
                             customer_phone |-> rest[1],
                             item |-> SubSeq(rest, 2, Len(rest) - 1),
                             amount |-> Float(rest[Len(rest)])]
           ELSE last.resp = NoCommand

----------------------------------------------------------------------------
(* Requests during which an exception is raised                            *)

\* the callback refuses the text before process_kula_sale is called
NoSale(text) ==
    LET cmd == parse_kula_command(text)
    IN cmd.action = "" \/ cmd.customer_phone = "" \/ cmd.amount = 0

\* the USSD sessions that have reached a level where the handler queries
\* the ledger
LedgerSteps ==
    {steps \in SaleSteps : Len(steps) >= 4}
    \cup {steps \in PointsSteps \cup CreditSteps : Len(steps) >= 2}

\* the environments in which a step of the request raises
FaultEnvs(faults) == [gateway_up : BOOLEAN, fault : faults]

\* what the HTTP boundary would hand its caller if the exception got through
RawFault == [raised |-> TRUE]

\* POST /ussd while a ledger step of the handler, or the notification after
\* a successful sale, raises
UssdFault ==
    /\ last = Idle
    /\ SaleCount(db) + LoanCount(db) <= MaxFaultRows
    /\ \E caller \in Callers, steps \in LedgerSteps,
          env \in FaultEnvs(StepFaults \cup {"send"}) :
        LET text == JoinStar(steps)
            session == [sessionId |-> "ATUid_1", serviceCode |-> "*384*1#"]
            r == ussd_endpoint(db, session.sessionId, session.serviceCode,
                               caller, text, env)
        IN /\ env.fault = "send" =>
                 handle_ussd_request(db, text, caller, session.sessionId).resp.text
                 = "Sale successful!"
           /\ WithinBounds(r.db)
           /\ db' = r.db
           /\ last' = Exchange("ussd", caller, text, db, r.resp)
                          @@ [sent |-> r.sent, session |-> session,
                              fault |-> env.fault]

\* POST /whatsapp while the handler raises
WhatsappFault ==
    /\ last = Idle
    /\ SaleCount(db) + LoanCount(db) <= MaxFaultRows
    /\ \E caller \in Callers, message \in ChatMessages,
          env \in FaultEnvs(StepFaults) :
        LET r == whatsapp_endpoint(db, caller, message, env)
        IN /\ db' = r.db
           /\ last' = Exchange("whatsapp", caller, message, db, r.resp)
                          @@ [fault |-> env.fault]

\* POST /messaging/callback while reading the body, or a ledger step of
\* process_kula_sale, raises
CallbackFault ==
    /\ last = Idle
    /\ SaleCount(db) + LoanCount(db) <= MaxFaultRows
    /\ \E sender \in Callers \cup {""}, content_type \in {"json", "form"},
          text \in CallbackTexts, env \in FaultEnvs(StepFaults \cup {"body"}) :
        LET r == messaging_callback(db, content_type, sender, text, env)
        IN /\ env.fault \in StepFaults =>
                 sender # "" /\ text # << >> /\ ~NoSale(text)
           /\ WithinBounds(r.db)
           /\ db' = r.db
           /\ last' = Exchange("callback", sender, text, db,
                               [content_type |-> content_type,
                                status |-> r.status, ack |-> r.ack,
                                success |-> r.success,
                                message |-> r.message, channel |-> r.channel,
                                sent |-> r.sent])
                          @@ [fault |-> env.fault]

FaultNext ==
    \/ Next
    \/ UssdFault
    \/ WhatsappFault
    \/ CallbackFault

FaultSpec == Init /\ [][FaultNext]_vars

----------------------------------------------------------------------------
(* The long history of one customer                                        *)

\* The requests about one customer, 0711111111, by the registered vendor:
\* four-step cash sales of every amount float() accepts, the points and
\* credit sessions, and a sale sent to the callback; fewer requests than
\* Spec offers, followed over a longer history.

HistorySteps ==
    {<<"1", LongPhone, a, "1">> : a \in {"500", "0", "-10"}}
    \cup {<<"2", LongPhone>>, <<"3", LongPhone>>, <<"3", LongPhone, "1">>}

HistoryTexts == {<<"KULA", LongPhone, "Chapati", "500">>}

\* the session and the environment of the requests of the history
HistorySession == [sessionId |-> "ATUid_1", serviceCode |-> "*384*1#"]
HistoryEnv == [gateway_up |-> TRUE, fault |-> NoFault]

\* the bound on the history's length
WithinHistory(d) == SaleCount(d) <= MaxHistory /\ LoanCount(d) <= MaxLoans

\* POST /ussd, about the customer
HistoryUssd ==
    /\ last = Idle
    /\ \E steps \in HistorySteps :
        LET text == JoinStar(steps)
            r == ussd_endpoint(db, HistorySession.sessionId,
                               HistorySession.serviceCode, VendorPhone, text,
                               HistoryEnv)
        IN /\ WithinHistory(r.db)
           /\ db' = r.db
           /\ last' = Exchange("ussd", VendorPhone, text, db, r.resp)
                          @@ [sent |-> r.sent, session |-> HistorySession]

\* POST /messaging/callback, about the customer
HistoryCallback ==
    /\ last = Idle
    /\ \E text \in HistoryTexts, content_type \in {"json", "form"} :
        LET r == messaging_callback(db, content_type, VendorPhone, text, HistoryEnv)
        IN /\ WithinHistory(r.db)
           /\ db' = r.db
           /\ last' = Exchange("callback", VendorPhone, text, db,
                               [content_type |-> content_type,
                                status |-> r.status, ack |-> r.ack,
                                success |-> r.success,
                                message |-> r.message, channel |-> r.channel,
                                sent |-> r.sent])

HistoryNext ==
    \/ CreateVendor
    \/ HistoryUssd
    \/ HistoryCallback
    \/ Deliver

HistorySpec == Init /\ [][HistoryNext]_vars

----------------------------------------------------------------------------
(* Two sales for the same customer served at the same time                 *)

\* The two requests are USSD sales of a registered vendor at level 4, each
\* served with a database session of its own; `last` holds both requests
\* in flight: where each one is in handle_new_sale and the balance its
\* award_points has read.

Workers == {1, 2}

\* the amounts of the concurrent sales, in KES
RaceAmounts == {500, 100}

\* the two requests are in flight
Racing == last # Idle /\ last.chan = "race"

\* award_points, the read: the query loads the customer's balance
award_points_read(d, customer_phone) ==
    d.customers[customer_phone].kula_points

\* an award written as one UPDATE ... SET kula_points = kula_points + x
award_points_write_Atomic(d, customer_phone, read, amount) ==
    [d EXCEPT !.customers[customer_phone].kula_points =
                  @ + amount \div POINTS_PER_KES_DEN]

\* award_points, the write: the balance read plus the points earned is
\* committed, whatever the row holds by then
award_points_write(d, customer_phone, read, amount) ==
    [d EXCEPT !.customers[customer_phone].kula_points =
                  read + amount \div POINTS_PER_KES_DEN]

\* two sale requests for the same customer arrive together
ConcurrentSales ==
    /\ last = Idle
    /\ HasVendor(db, VendorPhone)
    /\ SaleCount(db) + 2 <= MaxSales
    /\ \E amounts \in [Workers -> RaceAmounts] :
        last' = [chan |-> "race", caller |-> VendorPhone,
                 customer_phone |-> LongPhone, before |-> db,
                 workers |-> [w \in Workers |->
                                 [pc |-> "customer", amount |-> amounts[w],
                                  read |-> 0, stale |-> FALSE]]]
    /\ UNCHANGED db

\* worker w moves to the next statement
Goto(w, pc) == [last EXCEPT !.workers[w].pc = pc]

\* handle_new_sale: get or create the customer
GetOrCreateCustomer(w) ==
    /\ Racing
    /\ last.workers[w].pc = "customer"
    /\ db' = IF HasCustomer(db, last.customer_phone) THEN db
             ELSE AddCustomer(db, last.customer_phone, 0, 0)
    /\ last' = Goto(w, "transaction")

\* handle_new_sale: the Transaction is added and committed
PersistTransaction(w) ==
    /\ Racing
    /\ last.workers[w].pc = "transaction"
    /\ db' = AddTransaction(db, last.caller, last.customer_phone,
                            last.workers[w].amount, CASH)
    /\ last' = Goto(w, "read")

\* award_points: the customer is queried
ReadPoints(w) ==
    /\ Racing
    /\ last.workers[w].pc = "read"
    /\ last' = [last EXCEPT
                  !.workers[w].pc = "write",
                  !.workers[w].read = award_points_read(db, last.customer_phone)]
    /\ UNCHANGED db

\* award_points: the incremented balance is committed; the write is stale
\* when the row no longer holds the balance that was read
WritePoints(w) ==
    /\ Racing
    /\ last.workers[w].pc = "write"
    /\ db' = award_points_write(db, last.customer_phone, last.workers[w].read,
                                last.workers[w].amount)
    /\ last' = [last EXCEPT
                  !.workers[w].pc = "eligibility",
                  !.workers[w].stale =
                      award_points_read(db, last.customer_phone)
                          # last.workers[w].read]

\* handle_new_sale: the eligibility check after the award
CheckEligibility(w) ==
    /\ Racing
    /\ last.workers[w].pc = "eligibility"
    /\ db' = check_credit_eligibility(db, last.customer_phone).db
    /\ last' = Goto(w, "done")

\* both requests have been answered
AllDone == Racing /\ \A w \in Workers : last.workers[w].pc = "done"

\* the responses are returned; the server takes the next requests
Respond ==
    /\ last # Idle
    /\ Racing => AllDone
    /\ last' = Idle
    /\ UNCHANGED db

RaceNext ==
    \/ CreateVendor
    \/ ConcurrentSales
    \/ \E w \in Workers : GetOrCreateCustomer(w)
    \/ \E w \in Workers : PersistTransaction(w)
    \/ \E w \in Workers : ReadPoints(w)
    \/ \E w \in Workers : WritePoints(w)
    \/ \E w \in Workers : CheckEligibility(w)
    \/ Respond

RaceSpec == Init /\ [][RaceNext]_vars

----------------------------------------------------------------------------
(* C21..C30                                                                *)

\* the callback's text does not parse into an action, a phone and an amount
Unparseable(text) == NoSale(text)

\* the last exchange is a callback missing its sender or its text, or
\* carrying a command that does not parse
LastIsMalformed ==
    /\ LastIsCallback
    /\ last.caller = "" \/ last.text = << >> \/ Unparseable(last.text)

\* the channel a request of this content type arrived on
ArrivalChannel(content_type) ==
    IF content_type = "json" THEN "whatsapp" ELSE "sms"

(* C21: a callback request missing the sender or the text, or carrying an  *)
(* unparseable command, is answered with a client error (400) and leaves   *)
(* the ledger as it was; when the sender is known one explanatory message  *)
(* goes to the sender through the channel the request arrived on (SMS for  *)
(* form data, WhatsApp for JSON), and when it is not, nothing is sent.     *)
C21_MalformedRefused ==
    LastIsMalformed =>
        /\ last.resp.status = 400
        /\ last.resp.ack = "error"
        /\ db = last.before
        /\ last.resp.message \in
              {"Invalid Format: Missing 'from' or 'text' field",
               "Invalid Format: Use 'KULA [CustomerPhone] [Item] [Amount]'"}
        /\ IF last.caller # ""
           THEN /\ last.resp.sent.channel = ArrivalChannel(last.resp.content_type)
                /\ last.resp.sent.to = last.caller
           ELSE last.resp.sent = NoSend

\* C21's case: a known sender's JSON request with a command that does not
\* parse, refused with a WhatsApp message back to the sender
C21_Witness ==
    /\ LastIsMalformed
    /\ last.caller = VendorPhone
    /\ last.text # << >>
    /\ last.resp.content_type = "json"
    /\ last.resp.status = 400
    /\ last.resp.sent.channel = "whatsapp"
    /\ last.resp.sent.to = VendorPhone

\* the number of Transaction rows of a ledger
RowCount(d) == SaleCount(d) + LoanCount(d)

\* the last exchange attempted an outbound message after a sale: the SMS to
\* the customer of a USSD sale, or the reply to the vendor of a callback sale
LastNotifiedSale ==
    \/ LastIsUssd /\ last.sent # NoSend
    \/ LastIsCallback /\ last.resp.status = 200 /\ last.resp.success

\* the outbound message of the last exchange
LastSent == IF LastIsUssd THEN last.sent ELSE last.resp.sent

LastFaulted == last # Idle /\ "fault" \in DOMAIN last

\* the generic message of the USSD and chat endpoints' except clauses
GenericError == "An error occurred. Please try again later."

(* C23: a fault raised while a USSD, chat or callback request is processed *)
(* never reaches the caller of the HTTP boundary: the USSD endpoint        *)
(* answers 'END An error occurred. Please try again later.', the chat      *)
(* endpoint answers with the same generic message, and the callback        *)
(* answers 500 with an error when the body could not be read and 200 with  *)
(* success = false and 'Error processing sale' when a step of the sale     *)
(* raised.                                                                 *)
C23_FaultsCaught ==
    LastFaulted =>
        /\ last.resp # RawFault
        /\ last.chan = "ussd" => last.resp = END(GenericError)
        /\ last.chan = "whatsapp" => last.resp = Say(GenericError)
        /\ last.chan = "callback" =>
              IF last.fault = "body"
              THEN last.resp.status = 500 /\ last.resp.ack = "error"
              ELSE /\ last.resp.status = 200
                   /\ ~last.resp.success
                   /\ last.resp.message = "Error processing sale"

\* C23's case: the second ledger step of a USSD sale raises, after the
\* customer's row was committed, and the vendor reads the END message
C23_Witness ==
    /\ LastFaulted
    /\ last.chan = "ussd"
    /\ last.fault = "step2"
    /\ db # last.before
    /\ last.resp.marker = "END"

(* C24: every response of the USSD endpoint, whatever the text, the phone  *)
(* and the ledger, and also when an exception was raised while the request *)
(* was processed, is one string made of the marker 'CON' or 'END' followed *)
(* by a non-empty display text.                                            *)
C24_Marked ==
    LastIsUssd =>
        /\ last.resp # RawFault
        /\ last.resp.marker \in {"CON", "END"}
        /\ last.resp.text # ""

\* C24's case: the SMS after a committed USSD sale raises and the endpoint
\* answers with the END marker and the generic error text
C24_Witness ==
    /\ LastIsUssd
    /\ LastFaulted
    /\ last.fault = "send"
    /\ last.resp.marker = "END"
    /\ last.resp.text = GenericError
    /\ RowCount(db) = RowCount(last.before) + 1

\* the last exchange is a call of the session decoder
LastIsDecode == last.chan = "parse_ussd_text"

RECURSIVE Flatten(_)
\* the characters of a text or of "*".join(steps), chunk boundaries forgotten
Flatten(text) ==
    IF text = << >> THEN "" ELSE Head(text) \o Flatten(Tail(text))

\* the number of separators in a text
StarCount(text) == Len(SelectSeq(text, LAMBDA c : c = "*"))

(* C25: the decoder maps the empty text to zero steps and level 0; a       *)
(* non-empty text yields one token more than it has '*' separators, empty  *)
(* tokens included, and joining the tokens with '*' gives back the text,   *)
(* so the tokens are the '*'-separated pieces in order; for every text the *)
(* level equals the number of steps, so every index from 1 to the level is *)
(* a step index.                                                           *)
C25_Decoder ==
    LastIsDecode =>
        LET text == last.text
            steps == last.resp.steps
            level == last.resp.level
        IN /\ text = << >> => steps = << >> /\ level = 0
           /\ text # << >> =>
                 /\ Len(steps) = StarCount(text) + 1
                 /\ Flatten(JoinStar(steps)) = Flatten(text)
           /\ level = Len(steps)
           /\ \A i \in 1..level : i \in DOMAIN steps

\* C25's case: '1**07' is decoded into three steps, the empty one kept
C25_Witness ==
    /\ LastIsDecode
    /\ last.text = <<"1", "*", "*", "07">>
    /\ last.resp.steps = <<"1", "", "07">>
    /\ last.resp.level = 3

DerivedLimit(d, phone) ==
    LET rows == NonCreditRows(d, phone)
        transaction_count == BagCount(d.transactions, rows)
        total_spend == BagTotal(d.transactions, rows)
    IN IF transaction_count >= 5 /\ total_spend >= 500
       THEN Min(total_spend \div 5, 300)
       ELSE 0

(* C27: after every request, each customer's stored credit_limit equals    *)
(* the limit derived from the customer's current history: min(0.2 x total  *)
(* non-Credit spend, 300) if the customer is eligible now, 0 if not.       *)
C27_LimitDerived ==
    \A phone \in DOMAIN db.customers :
        db.customers[phone].credit_limit = DerivedLimit(db, phone)

(* C28: kula_points never decreases: for every customer and every request  *)
(* on any channel, the balance after the request is at least the balance   *)
(* before it.                                                              *)
C28_PointsNeverDecrease ==
    last # Idle =>
        \A phone \in DOMAIN last.before.customers :
            /\ phone \in DOMAIN db.customers
            /\ db.customers[phone].kula_points
                   >= last.before.customers[phone].kula_points

\* the balance of the raced customer when the two requests arrived
RaceBalanceBefore ==
    IF HasCustomer(last.before, last.customer_phone)
    THEN last.before.customers[last.customer_phone].kula_points
    ELSE 0

\* the sum of the two awards
RaceAwards ==
    (last.workers[1].amount \div 10) + (last.workers[2].amount \div 10)

\* the raced customer's balance now
RaceBalance == db.customers[last.customer_phone].kula_points

(* C29: when two sales for the same customer have run concurrently, both   *)
(* Transactions exist; the balance has grown by the sum of the two awards  *)
(* when neither award_points wrote over a balance it had not read, and by  *)
(* less than the sum, one increment being lost, when one did.              *)
C29_LostUpdate ==
    AllDone =>
        /\ SaleCount(db) = SaleCount(last.before) + 2
        /\ IF \E w \in Workers : last.workers[w].stale
           THEN RaceBalance < RaceBalanceBefore + RaceAwards
           ELSE RaceBalance = RaceBalanceBefore + RaceAwards

\* C29's case: both Transactions exist, both requests are done, and the
\* balance is below the sum of the two awards
C29_Witness ==
    /\ AllDone
    /\ SaleCount(db) = SaleCount(last.before) + 2
    /\ RaceBalance < RaceBalanceBefore + RaceAwards
    /\ \E w \in Workers : RaceBalance = RaceBalanceBefore + last.workers[w].amount \div 10

\* the customer is eligible on the history of ledger d
EligibleIn(d, phone) ==
    LET rows == NonCreditRows(d, phone)
    IN BagCount(d.transactions, rows) >= 5 /\ BagTotal(d.transactions, rows) >= 500

\* the last request is one whose handler calls check_credit_eligibility for
\* the phone: a USSD sale or credit session, or a sale sent to the callback
LastChecksEligibility(phone) ==
    \/ /\ LastIsUssd
       /\ Len(LastSteps) >= 2
       /\ LastSteps[1] \in {"1", "3"}
       /\ LastSteps[2] = phone
    \/ /\ LastIsCallback
       /\ last.resp.status = 200
       /\ parse_kula_command(last.text).customer_phone = phone

(* C30: a stored credit_limit changes only in a request that runs          *)
(* check_credit_eligibility for that customer and finds the customer       *)
(* eligible, and it then holds the limit the check computed; every other   *)
(* request, and a check that finds the customer not eligible, leaves every *)
(* stored credit_limit as it was; a customer created by a request starts   *)
(* at 0.                                                                   *)
C30_LimitWrittenOnlyWhenEligible ==
    last # Idle =>
        \A phone \in DOMAIN db.customers :
            LET now == db.customers[phone].credit_limit
                was == IF phone \in DOMAIN last.before.customers
                       THEN last.before.customers[phone].credit_limit
                       ELSE 0
            IN now # was =>
                  /\ LastChecksEligibility(phone)
                  /\ EligibleIn(db, phone)
                  /\ now = DerivedLimit(db, phone)

\* C30's case: a fifth sale makes the customer eligible and the check
\* stores the limit, which was 0 before
C30_Witness ==
    /\ LastIsUssd
    /\ last.resp.text = "Sale successful!"
    /\ HasCustomer(last.before, LongPhone)
    /\ last.before.customers[LongPhone].credit_limit = 0
    /\ db.customers[LongPhone].credit_limit = 100
    /\ EligibleIn(db, LongPhone)

----------------------------------------------------------------------------
(* C31..C37                                                                *)

\* the last request as it runs when nothing raises: the answer of the
\* handler for a USSD request, of process_kula_sale for a callback
LastBody ==
    IF LastIsUssd
    THEN handle_ussd_request(last.before, last.text, last.caller,
                             last.session.sessionId)
    ELSE LET cmd == parse_kula_command(last.text)
         IN process_kula_sale(last.before, last.caller, cmd.customer_phone,
                              cmd.item, cmd.amount)

\* the last request is a sale during which a ledger step raised
LastIsFaultedSale ==
    /\ LastFaulted
    /\ last.fault \in StepFaults
    /\ LastIsUssd \/ (LastIsCallback /\ last.resp.status = 200)
    /\ "commits" \in DOMAIN LastBody
    /\ LastBody.commits # << >>

\* the customer of the last sale
LastCustomer ==
    IF LastIsUssd THEN LastSteps[2]
    ELSE parse_kula_command(last.text).customer_phone

\* the amount of the last sale
LastAmount ==
    IF LastIsUssd THEN Float(LastSteps[3])
    ELSE parse_kula_command(last.text).amount

\* a phone's balance in a ledger, 0 when it has no Customer
PointsOf(d, phone) ==
    IF HasCustomer(d, phone) THEN d.customers[phone].kula_points ELSE 0

(* C31: a sale resolves the vendor, resolves or creates the customer,      *)
(* persists the Transaction, awards the points and recomputes eligibility, *)
(* in that order, each step committed before the next: if persisting the   *)
(* Transaction raises, no Transaction is added and the customer's points   *)
(* are as before; if awarding the points raises, the Transaction persisted *)
(* in the step before is in the ledger and the points are as before.       *)
C31_StepOrder ==
    LastIsFaultedSale =>
        LET c == LastBody.commits
            phone == LastCustomer
            was == PointsOf(last.before, phone)
        IN /\ HasVendor(last.before, last.caller)
           /\ HasCustomer(c[1], phone)
           /\ c[1].transactions = last.before.transactions
           /\ RowCount(c[2]) = RowCount(last.before) + 1
           /\ c[2].customers = c[1].customers
           /\ c[3].transactions = c[2].transactions
           /\ PointsOf(c[3], phone) = was + LastAmount \div 10
           /\ c[4].transactions = c[3].transactions
           /\ PointsOf(c[4], phone) = PointsOf(c[3], phone)
           /\ last.fault = "step1" => db = last.before
           /\ last.fault = "step2" =>
                  /\ db.transactions = last.before.transactions
                  /\ PointsOf(db, phone) = was
           /\ last.fault = "step3" =>
                  /\ RowCount(db) = RowCount(last.before) + 1
                  /\ PointsOf(db, phone) = was
           /\ last.fault = "step4" =>
                  /\ RowCount(db) = RowCount(last.before) + 1
                  /\ PointsOf(db, phone) = was + LastAmount \div 10

\* C31's case: the award of a USSD sale of 500 raises; the Transaction is
\* in the ledger and the customer has no points
C31_Witness ==
    /\ LastIsFaultedSale
    /\ LastIsUssd
    /\ last.fault = "step3"
    /\ LastAmount = 500
    /\ RowCount(db) = RowCount(last.before) + 1
    /\ PointsOf(db, LastCustomer) = PointsOf(last.before, LastCustomer)

\* the last request is a non-final step of the record-sale flow whose field
\* fails validation: a phone shorter than 10 characters at level 2, an amount
\* that is not a positive number at level 3
LastIsInvalidSaleField ==
    /\ LastIsUssd
    /\ Len(LastSteps) \in {2, 3}
    /\ LastSteps[1] = "1"
    /\ \/ Len(LastSteps) = 2 /\ Len(LastSteps[2]) < 10
       \/ Len(LastSteps) = 3 /\ ~PositiveNumber(LastSteps[3])

(* C32: in the record-sale flow, a field that fails validation at a        *)
(* non-final step (customer phone too short, amount not a number or not    *)
(* positive) is answered with a CON re-prompt; the session is not ended.   *)
C32_Reprompt ==
    LastIsInvalidSaleField => last.resp.marker = "CON"

\* the one navigation token the code knows: choice 2, "Back", of the credit
\* options menu
BackToken == "2"

\* the last request is at level 3 or deeper of a sub-flow and its trailing
\* step is the back token
LastIsBack ==
    /\ LastIsUssd
    /\ Len(LastSteps) >= 3
    /\ LastSteps[1] \in {"1", "2", "3"}
    /\ LastSteps[Len(LastSteps)] = BackToken

(* C33: in every sub-flow and at every level >= 3, a trailing back token   *)
(* is recognised before the step's own logic and answered with a CON that  *)
(* shows the parent menu, the ledger left as it was (the claim says the    *)
(* same of a home token that restarts at the PIN prompt; the formula       *)
(* states the back token, the only navigation token the handlers have).    *)
C33_BackRecognised ==
    LastIsBack =>
        /\ last.resp.marker = "CON"
        /\ last.resp = MainMenu
        /\ db = last.before

\* the last USSD request added a Transaction: a sale or a loan
LastCommitted == LastIsUssd /\ RowCount(db) > RowCount(last.before)

(* C34: whenever a USSD request commits a sale Transaction or a loan,      *)
(* every proper non-empty prefix of its steps, submitted against the       *)
(* ledger the request found, is answered with a continuation; a committed  *)
(* sale has a customer phone of at least 10 characters and an amount > 0.  *)
C34_ReplayConsistent ==
    LastCommitted =>
        /\ \A k \in 1..(Len(LastSteps) - 1) :
               handle_ussd_request(last.before, JoinStar(SubSeq(LastSteps, 1, k)),
                                   last.caller, last.session.sessionId)
                   .resp.marker = "CON"
        /\ LastSteps[1] = "1" =>
               /\ Len(LastSteps[2]) >= 10
               /\ PositiveNumber(LastSteps[3])

RECURSIVE SessionLedger(_, _, _, _)
\* the ledger after the first k requests of a session that submits the
\* cumulative text of steps one token at a time, starting with the empty text
SessionLedger(d, caller, steps, k) ==
    IF k = 0 THEN d
    ELSE ussd_endpoint(SessionLedger(d, caller, steps, k - 1),
                       HistorySession.sessionId, HistorySession.serviceCode,
                       caller, JoinStar(SubSeq(steps, 1, k - 1)), HistoryEnv).db

\* the answer to the request of that session that carries the first k steps
SessionAnswer(d, caller, steps, k) ==
    ussd_endpoint(SessionLedger(d, caller, steps, k),
                  HistorySession.sessionId, HistorySession.serviceCode,
                  caller, JoinStar(SubSeq(steps, 1, k)), HistoryEnv)

\* the client follows the protocol up to its last request: every earlier
\* request, the empty one included, was answered with a continuation
FollowsProtocol(d, caller, steps) ==
    \A k \in 0..(Len(steps) - 1) :
        SessionAnswer(d, caller, steps, k).resp.marker = "CON"

\* the last request of the session adds a sale Transaction
SessionCommitsSale(d, caller, steps) ==
    /\ steps # << >>
    /\ steps[1] = "1"
    /\ SaleCount(SessionAnswer(d, caller, steps, Len(steps)).db)
           > SaleCount(SessionLedger(d, caller, steps, Len(steps)))

\* the tokens a client may append
NextTokens == {"1", "2", "3", "9", "500", LongPhone}

(* C35: a client of a registered vendor that follows the session protocol  *)
(* (empty text first, then one more token after each continuation) can     *)
(* reach a request that commits a sale Transaction, and after every        *)
(* continuation there is a next token that the step's own logic handles,   *)
(* not the generic 'END Invalid selection. Please try again.'.             *)
C35_ProtocolProgress ==
    /\ (HasVendor(db, VendorPhone) /\ SaleCount(db) < MaxSales) =>
           \E steps \in UssdSteps :
               /\ FollowsProtocol(db, VendorPhone, steps)
               /\ SessionCommitsSale(db, VendorPhone, steps)
    /\ (LastIsUssd /\ last.resp.marker = "CON") =>
           \E t \in NextTokens :
               handle_ussd_request(db, JoinStar(Append(LastSteps, t)),
                                   last.caller, last.session.sessionId).resp
                   # InvalidSelection

\* the sum of the amounts of a phone's Credit rows in a ledger
LoanTotal(d, phone) ==
    BagTotal(d.transactions, {t \in LoanRows(d) : t.customer_phone = phone})

(* C36: after any sequence of loan acceptances, the same acceptance sent   *)
(* more than once included, the sum of the amounts of a customer's Credit  *)
(* Transactions is at most that customer's stored credit_limit, and so at  *)
(* most the cap of 300.                                                    *)
C36_LoansWithinLimit ==
    \A phone \in DOMAIN db.customers :
        /\ LoanTotal(db, phone) <= db.customers[phone].credit_limit
        /\ LoanTotal(db, phone) <= MAX_CREDIT_LIMIT

\* the last request is answered and its ledger before is on record
LastIsAnswered == last.chan \in {"ussd", "whatsapp", "callback", "command"}

\* the last request left a Credit row in the ledger that was not there
LastMadeLoan ==
    LastIsAnswered /\ LoanCount(db) > LoanCount(last.before)

\* the last request is a loan acceptance: choice 1 at the third level of the
\* USSD credit flow, or 'credit <phone> accept' given to the chat command
LastIsAcceptance ==
    \/ /\ LastIsUssd
       /\ Len(LastSteps) = 3
       /\ LastSteps[1] = "3"
       /\ LastSteps[3] = "1"
    \/ /\ LastIsCommand
       /\ Len(last.text) >= 3
       /\ last.text[1] = "credit"
       /\ Lower(last.text[3]) = "accept"

\* the customer of the last acceptance
LastBorrower == IF LastIsUssd THEN LastSteps[2] ELSE last.text[2]

\* the count and the total of check_credit_eligibility's query for a phone
SpendOf(d, phone) ==
    LET rows == NonCreditRows(d, phone)
    IN <<BagCount(d.transactions, rows), BagTotal(d.transactions, rows)>>

(* C37: a request that creates a Credit Transaction is a loan acceptance   *)
(* whose customer is eligible on the ledger the request finds, whose       *)
(* caller is a registered vendor and whose customer exists; it adds one    *)
(* row, of the caller and the customer, with amount min(0.2 x the          *)
(* customer's non-Credit spend, 300); it changes no kula_points balance    *)
(* and leaves every customer's non-Credit count and total as they were.    *)
C37_LoanOnlyWhenEligible ==
    LastMadeLoan =>
        /\ LastIsAcceptance
        /\ EligibleIn(last.before, LastBorrower)
        /\ HasVendor(last.before, last.caller)
        /\ HasCustomer(last.before, LastBorrower)
        /\ db.transactions =
               AddTransaction(last.before, last.caller, LastBorrower,
                              Min(SpendOf(last.before, LastBorrower)[2] \div 5,
                                  MAX_CREDIT_LIMIT),
                              CREDIT).transactions
        /\ DOMAIN db.customers = DOMAIN last.before.customers
        /\ \A phone \in DOMAIN db.customers :
            /\ PointsOf(db, phone) = PointsOf(last.before, phone)
            /\ SpendOf(db, phone) = SpendOf(last.before, phone)

\* a USSD acceptance has just lent an eligible customer their limit
C37_Witness ==
    /\ LastMadeLoan
    /\ LastIsUssd
    /\ LastIsAcceptance
    /\ last.resp.text = "Loan approved!"
    /\ last.resp.n1 = DerivedLimit(last.before, LastBorrower)
    /\ last.resp.n1 > 0

====
